---- MODULE Spec2Model ----
(***************************************************************************)
(* Verification model of the Hackflight flight controller.                 *)
(*                                                                         *)
(* SpecArming  : the arming / failsafe state machine, in the two           *)
(*               orchestrators the repository holds (Board in board.h,     *)
(*               Hackflight in hackflight.hpp).  A build runs exactly one  *)
(*               of them; the variable build says which.                   *)
(* SpecRx      : the receiver's per-channel signal-loss handling           *)
(*               (receiver.h).                                             *)
(***************************************************************************)
EXTENDS Integers, Sequences, FiniteSets, TLC

VARIABLES
    build,          \* "board" | "hackflight": which orchestrator is linked
    \* ---- Board (board.h)
    m_arming,       \* Arming record of Board
    doNotRepeat,    \* static _doNotRepeat of attemptToArm
    rx,             \* the receiver as Board sees it: poll state, raw switches
    events,         \* calls and flag changes of the last handler, in order
    escFrame,       \* frame the last handler handed to Esc::write, if any
    vizMotors,      \* m_visualizerTask.motors (motor-test override)
    escIsReady,     \* what Esc::isReady answers: false during the warmup
    switchOffSeen,  \* history: a frame with aux1 deasserted was observed
    armPass,        \* history: progress of the receiver pass that raised aux1
    \* ---- Hackflight (hackflight.hpp)
    hf,             \* [armed, failsafe, safeToArm]
    hfIn,           \* inputs of the last checkReceiver
    hfBeginArmed,   \* history: the armed argument of Hackflight::begin
    \* ---- Receiver channels (receiver.h)
    now,                    \* currentTimeUs, 32 bits
    clockTicks,             \* history: clock steps made since power-on
    m_raw,                  \* m_raw[channel]
    m_invalidPulsePeriod,   \* m_invalidPulsePeriod[channel], milliseconds
    m_signalReceived,
    m_inFailsafeMode,
    m_dataProcessingRequired,
    watch,                  \* history: the channel whose pulses are followed
    lastValid,              \* history: that channel's last valid pulse
    rxEvent,                \* what the last receiver step did
    \* ---- Receiver signal deadline (receiver.h, Receiver::check)
    m_needSignalBefore,     \* deadline of the next good frame, 32 bits
    lastGood,               \* history: time of the last good frame
    sigEvent,               \* what the last Receiver::check did
    \* ---- Board::step (board.h): inner tick and outer tasks
    pc,                     \* position in Board::step
    nowCycles,              \* last value read from getCycleCounter, 32 bits
    cyclesRun,              \* history: cycles elapsed since power-on
    nextTargetCycles,       \* m_scheduler.getNextTargetCycles(), 32 bits
    targetRun,              \* history: cycles since power-on of that target
    loopRemainingCycles,    \* loopRemainingCycles of checkCoreTasks
    gyro,                   \* IMU: [ready, sample], written by the gyro IRQ
    vstate,                 \* m_vstate angular rates
    rxDemands,              \* demands cached by the receiver
    tick,                   \* history of the step in progress
    dynEvent,               \* what the last checkDynamicTasks did
    \* ---- Board::checkCoreTasks (board.h): lock of the scheduler to the gyro
    gyroPeriod,             \* cycles between two gyro interrupts
    gyroCount,              \* m_imu->getGyroInterruptCount(), 32 bits
    gyroLatch,              \* cycle counter at the last gyro interrupt
    terminalGyroRateCount,  \* static _terminalGyroRateCount
    sampleRateStartCycles,  \* static _sampleRateStartCycles
    desiredPeriodCycles,    \* m_scheduler.desiredPeriodCycles
    terminalGyroLockCount,  \* static _terminalGyroLockCount
    gyroSkewAccum,          \* static _gyroSkewAccum
    lastTargetCycles,       \* m_scheduler.lastTargetCycles, 32 bits
    gov,                    \* history of the last tick and of the window
    \* ---- MSP parser (parser.hpp)
    parser_state_, type_, crc_, size_, index_,  \* statics of parser_parse
    buffer_size_, buffer_checksum_,             \* statics of parser_parse
    buffer,                 \* the caller's buffer, payload in and reply out
    buffer_size,            \* the caller's count of reply bytes left
    buffer_index,           \* the caller's read position
    motor_index, motor_percent,                 \* outputs of parser_parse
    serialLine,             \* the bytes the serial line delivers in this run
    frame,                  \* history: the frame the line is delivering
    parse,                  \* history of the last parser_parse
    parseCalls,             \* history: calls of parser_parse made
    \* ---- serializeFloat (parser.hpp)
    serValue,               \* the float value, in units of 0.0001
    serConversion,          \* what the float-to-uint32_t conversion yielded
    serOut,                 \* [buffer, size, checksum] it wrote
    \* ---- RC smoothing filter training (receiver.h)
    rxClockUs,              \* currentTimeUs of the last frame, 32 bits
    linkPlan,               \* the frames the radio link has yet to deliver
    m_smoothingFilter,      \* smoothingFilter_t, without the pt3 filters
    m_initializedFilter,
    m_calculatedCutoffs,
    m_isRateValid,
    m_refreshPeriod,
    m_lastRxTimeUs,
    m_validFrameTimeMs,
    trainingSamples,        \* history: the samples in the accumulator
    sinceTrainedUs,         \* history: time since a training completed
    streak,                 \* history: frames in a row 20 % off the average
    smooth,                 \* history of the last processSmoothingFilter
    \* ---- rxfail_step_to_channel_value (receiver.h)
    failStep,               \* failsafeChannelConfig_t.step, 8 bits
    failValue,              \* the pulse width returned, -1 before the call
    \* ---- Receiver::poll, check and getDemands (receiver.h)
    m_state,                \* STATE_CHECK .. STATE_UPDATE
    m_gotNewData,
    m_auxiliaryProcessingRequired,
    m_dataRequired,         \* m_dataProcessingRequired of this receiver
    m_rawSticks,            \* m_raw[THROTTLE..YAW]
    m_command,              \* m_command[ROLL..YAW]
    m_commands,             \* m_commands.throttle
    m_dataToSmooth,         \* [throttle, roll, pitch, yaw]
    filtersInitialized,     \* m_smoothingFilter.filterInitialized
    pt3,                    \* filterThrottle, filterRoll, filterPitch, filterYaw
    demands,                \* what the last getDemands handed out
    framesPending,          \* history: frames completed and not yet consumed
    demandCalls,            \* history: getDemands calls made
    rcCall,                 \* history of the last call
    \* spi.c: one SPI bus shared by a blocking caller and interrupt handlers
    useAtomicWait,      \* bus->useAtomicWait
    curSegment,         \* bus->curSegment
    initSegment,        \* bus->initSegment
    segmentLink,        \* txData/rxData of each list's terminating segment
    dmaUserParam,       \* device of the DMA transfer in flight, or "none"
    mainPc,             \* position of the blocking caller in spiReadWriteBuf
    isrPolled,          \* an interrupt handler is inside the polled loop
    spiFault,           \* a handler dereferenced BUS_SPI_FREE/BUS_SPI_LOCKED
    mainLen,            \* len of the blocking caller's data segment
    mainCallsLeft,      \* calls of spiReadWriteBuf still to come
    isrLeft,            \* spiSequence calls each interrupt device may make
    busyLeft,           \* BUS_BUSY answers the callbacks may still give
    inProgress,         \* sequences started and not ended
    deferred,           \* sequences deferred and not yet started
    completed,          \* sequences that ran to their terminating segment
    waitReturned        \* spiWait of the blocking caller has returned

boardVars == <<m_arming, doNotRepeat, rx, escFrame, vizMotors, escIsReady,
              armPass>>
hfVars    == <<hf, hfIn, hfBeginArmed>>
armingVars == <<build, m_arming, doNotRepeat, rx, events, escFrame, vizMotors,
                escIsReady,
                switchOffSeen, armPass, hf, hfIn, hfBeginArmed>>

channelVars == <<now, clockTicks, m_raw, m_invalidPulsePeriod, m_signalReceived,
                 m_inFailsafeMode, m_dataProcessingRequired, watch, lastValid,
                 rxEvent>>

signalVars == <<m_needSignalBefore, lastGood, sigEvent>>

stepVars == <<pc, nowCycles, cyclesRun, nextTargetCycles, targetRun,
              loopRemainingCycles,
              gyro, vstate, rxDemands, tick, dynEvent>>

governorVars == <<gyroPeriod, gyroCount, gyroLatch, terminalGyroRateCount,
                  sampleRateStartCycles, desiredPeriodCycles,
                  terminalGyroLockCount, gyroSkewAccum, lastTargetCycles, gov>>

parserVars == <<parser_state_, type_, crc_, size_, index_, buffer_size_,
                buffer_checksum_, buffer, buffer_size, buffer_index,
                motor_index, motor_percent, serialLine, frame, parse,
                parseCalls>>

serializeVars == <<serValue, serConversion, serOut>>

smoothingVars == <<rxClockUs, linkPlan, m_smoothingFilter, m_initializedFilter,
                   m_calculatedCutoffs, m_isRateValid, m_refreshPeriod,
                   m_lastRxTimeUs, m_validFrameTimeMs, trainingSamples,
                   sinceTrainedUs, streak, smooth>>

failValueVars == <<failStep, failValue>>

pollVars == <<m_state, m_gotNewData, m_auxiliaryProcessingRequired, m_dataRequired, m_rawSticks, m_command, m_commands, m_dataToSmooth, filtersInitialized, pt3, demands, framesPending, demandCalls, rcCall>>

spiVars == <<useAtomicWait, curSegment, initSegment, segmentLink, dmaUserParam, mainPc, isrPolled, spiFault, mainLen, mainCallsLeft, isrLeft, busyLeft, inProgress, deferred, completed, waitReturned>>

vars == <<armingVars, channelVars, signalVars, stepVars, governorVars, parserVars, serializeVars, smoothingVars, failValueVars, pollVars, spiVars>>

\* The variables each part of the model leaves alone.
notFailValueVars == <<armingVars, channelVars, signalVars, stepVars, governorVars, parserVars, serializeVars, smoothingVars, pollVars, spiVars>>

notPollVars == <<armingVars, channelVars, signalVars, stepVars, governorVars, parserVars, serializeVars, smoothingVars, failValueVars, spiVars>>

notSpiVars == <<armingVars, channelVars, signalVars, stepVars, governorVars, parserVars, serializeVars, smoothingVars, failValueVars, pollVars>>

notArmingVars == <<channelVars, signalVars, stepVars, governorVars, parserVars, serializeVars, smoothingVars, failValueVars, pollVars, spiVars>>
notStepVars == <<armingVars, channelVars, signalVars, governorVars, parserVars, serializeVars, smoothingVars, failValueVars, pollVars, spiVars>>

notGovernorVars == <<armingVars, channelVars, signalVars, stepVars, parserVars, serializeVars, smoothingVars, failValueVars, pollVars, spiVars>>

notSerializeVars == <<armingVars, channelVars, signalVars, stepVars, governorVars, parserVars, smoothingVars, failValueVars, pollVars, spiVars>>

notSmoothingVars == <<armingVars, channelVars, signalVars, stepVars, governorVars, parserVars, serializeVars, failValueVars, pollVars, spiVars>>

notParserVars == <<armingVars, channelVars, signalVars, stepVars, governorVars, serializeVars, smoothingVars, failValueVars, pollVars, spiVars>>

\* Largest motor value of the abstract motor frames (mixer output, override).
MaxMotor == 2

MotorValues == 0..MaxMotor

-----------------------------------------------------------------------------
(* Board: arming                                                           *)

\* Sequence helpers for the event log.
InSeq(e, q) == \E i \in 1..Len(q) : q[i] = e

First(q, e) == Len(q) > 0 /\ q[1] = e

\* readyToArm without the throttle-down precondition.
readyToArm_ignoresThrottle(a) ==
    /\ a.accDoneCalibrating /\ a.angleOkay /\ ~a.gotFailsafe /\ a.haveSignal
    /\ a.gyroDoneCalibrating /\ a.switchOkay

\* readyToArm without the switch-seen-off precondition.
readyToArm_ignoresSwitch(a) ==
    /\ a.accDoneCalibrating /\ a.angleOkay /\ ~a.gotFailsafe /\ a.haveSignal
    /\ a.gyroDoneCalibrating /\ a.throttleIsDown

\* readyToArm without the failsafe precondition.
readyToArm_ignoresFailsafe(a) ==
    /\ a.accDoneCalibrating /\ a.angleOkay /\ a.haveSignal
    /\ a.gyroDoneCalibrating /\ a.switchOkay /\ a.throttleIsDown

\* bool readyToArm(void)
readyToArm(a) ==
    /\ a.accDoneCalibrating
    /\ a.angleOkay
    /\ ~a.gotFailsafe
    /\ a.haveSignal
    /\ a.gyroDoneCalibrating
    /\ a.switchOkay
    /\ a.throttleIsDown

\* A board context c is [a |-> arming record, ev |-> events, dnr |-> _doNotRepeat].

\* disarm that clears the flag without stopping the motors.
disarm_noStop(c) ==
    [c EXCEPT !.ev = IF c.a.isArmed THEN Append(c.ev, "clear") ELSE c.ev,
              !.a.isArmed = FALSE]

\* void disarm(void): Esc::stop() when armed, then the flag is cleared.
disarm(c) ==
    [c EXCEPT !.ev = IF c.a.isArmed
                        THEN Append(Append(c.ev, "stop"), "clear")
                        ELSE c.ev,
              !.a.isArmed = FALSE]

\* attemptToArm that does not ask the ESC whether it is ready.
attemptToArm_ignoresEsc(c, escReady, aux1IsSet) ==
    LET c0 == [c EXCEPT !.ev = Append(@, "attemptToArm")]
    IN
    IF aux1IsSet /\ readyToArm(c0.a) /\ c0.a.isArmed
    THEN c0
    ELSE LET c1 == IF aux1IsSet
                      THEN IF readyToArm(c0.a)
                              THEN [c0 EXCEPT !.a.isArmed = TRUE,
                                              !.ev = Append(@, "arm")]
                              ELSE c0
                      ELSE IF c0.a.isArmed THEN disarm(c0) ELSE c0
         IN  IF ~(c1.a.isArmed \/ c1.dnr \/ ~readyToArm(c1.a))
                THEN [c1 EXCEPT !.dnr = TRUE]
                ELSE c1

\* attemptToArm that treats _doNotRepeat as a latch refusing to arm.
attemptToArm_oneShot(c, escReady, aux1IsSet) ==
    LET c0 == [c EXCEPT !.ev = Append(@, "attemptToArm")]
    IN
    IF aux1IsSet /\ readyToArm(c0.a) /\ c0.a.isArmed
    THEN c0
    ELSE IF aux1IsSet /\ readyToArm(c0.a) /\ ~escReady
    THEN [c0 EXCEPT !.ev = Append(@, "escNotReady")]
    ELSE LET c1 == IF aux1IsSet
                      THEN IF readyToArm(c0.a) /\ ~c0.dnr
                              THEN [c0 EXCEPT !.a.isArmed = TRUE,
                                              !.ev = Append(@, "arm")]
                              ELSE c0
                      ELSE IF c0.a.isArmed THEN disarm(c0) ELSE c0
         IN  IF ~(c1.a.isArmed \/ c1.dnr \/ ~readyToArm(c1.a))
                THEN [c1 EXCEPT !.dnr = TRUE]
                ELSE c1

\* void attemptToArm(usec, aux1IsSet); escReady is what m_esc->isReady(usec)
\* answers when it is asked.
attemptToArm(c, escReady, aux1IsSet) ==
    LET c0 == [c EXCEPT !.ev = Append(@, "attemptToArm")]
    IN
    IF aux1IsSet /\ readyToArm(c0.a) /\ c0.a.isArmed
    THEN c0  \* return: already armed
    ELSE IF aux1IsSet /\ readyToArm(c0.a) /\ ~escReady
    THEN [c0 EXCEPT !.ev = Append(@, "escNotReady")]  \* return: ESC not ready
    ELSE LET c1 == IF aux1IsSet
                      THEN IF readyToArm(c0.a)
                              THEN [c0 EXCEPT !.a.isArmed = TRUE,
                                              !.ev = Append(@, "arm")]
                              ELSE c0
                      ELSE IF c0.a.isArmed THEN disarm(c0) ELSE c0
         IN  IF ~(c1.a.isArmed \/ c1.dnr \/ ~readyToArm(c1.a))
                THEN [c1 EXCEPT !.dnr = TRUE]
                ELSE c1

\* void updateFromReceiver(throttleIsDown, aux1IsSet, haveSignal)
updateFromReceiver(c, throttleIsDown, aux1IsSet, haveSignal) ==
    LET c0 == [c EXCEPT !.ev = Append(@, "updateFromReceiver")]
        c1 ==
          IF c0.a.isArmed
          THEN IF ~haveSignal /\ c0.a.haveSignal
                  THEN disarm([c0 EXCEPT !.a.gotFailsafe = TRUE])
                  ELSE c0
          ELSE LET a1 == [c0.a EXCEPT !.throttleIsDown = throttleIsDown]
                   a2 == IF ~readyToArm(a1) /\ aux1IsSet
                            THEN [a1 EXCEPT !.switchOkay = FALSE]
                            ELSE IF ~aux1IsSet
                                    THEN [a1 EXCEPT !.switchOkay = TRUE]
                                    ELSE a1
               IN  [c0 EXCEPT !.a = a2]
    IN  [c1 EXCEPT !.a.haveSignal = haveSignal]

\* Receiver::poll, the state machine only: r is the receiver record, the
\* frame (fAux1, fThr) is what the PROCESS step reads into m_raw.
poll(r, fAux1, fThr) ==
    CASE r.state = "CHECK"   -> [r EXCEPT !.state = "PROCESS"]
      [] r.state = "PROCESS" ->
            IF ~r.dataReq
               THEN [r EXCEPT !.state = "CHECK"]
               ELSE [r EXCEPT !.dataReq = FALSE, !.aux1 = fAux1,
                              !.throttleDown = fThr, !.state = "MODES"]
      [] r.state = "MODES"   -> [r EXCEPT !.state = "UPDATE"]
      [] OTHER               -> [r EXCEPT !.state = "CHECK"]

\* Receiver::check with the clock comparisons as inputs: gotFrame is a
\* complete frame that is neither failsafe nor dropped, deadlinePassed is
\* currentTimeUs >= m_needSignalBefore, updateDue is the m_nextUpdateAtUs test.
check(r, gotFrame, deadlinePassed, updateDue) ==
    IF r.state # "CHECK" THEN r
    ELSE [r EXCEPT !.signal = IF gotFrame THEN TRUE
                              ELSE IF deadlinePassed THEN FALSE ELSE @,
                   !.dataReq = @ \/ gotFrame \/ updateDue]

\* void updateArmingFromReceiver(receiver, usec)
updateArmingFromReceiver(c, r, escReady) ==
    CASE r.state = "UPDATE" -> attemptToArm(c, escReady, r.aux1)
      [] r.state = "CHECK"  ->
            updateFromReceiver(c, r.throttleDown, r.aux1, r.signal)
      [] OTHER -> c

\* m_arming.updateFromImu(imu, vstate)
updateFromImu(a, imuIsLevel, gyroDone, accDone) ==
    [a EXCEPT !.angleOkay = imuIsLevel,
              !.gyroDoneCalibrating = gyroDone,
              !.accDoneCalibrating = accDone]

\* Esc::write that is always handed the mixer output.
escWriteFrame_alwaysMixer(a, mixmotors, override) ==
    [src |-> "mixer", val |-> mixmotors]

\* The frame checkCoreTasks hands to Esc::write.
escWriteFrame(a, mixmotors, override) ==
    IF a.isArmed THEN [src |-> "mixer", val |-> mixmotors]
                 ELSE [src |-> "override", val |-> override]

ArmingInit ==
    [isArmed |-> FALSE, accDoneCalibrating |-> FALSE, angleOkay |-> FALSE,
     gotFailsafe |-> FALSE, haveSignal |-> FALSE,
     gyroDoneCalibrating |-> FALSE, switchOkay |-> FALSE,
     throttleIsDown |-> FALSE]

RxInit ==
    [state |-> "CHECK", aux1 |-> FALSE, throttleDown |-> TRUE,
     signal |-> FALSE, dataReq |-> FALSE]

NoFrame == [src |-> "none", val |-> 0]

NoPass == [held |-> FALSE, polls |-> 0]

BoardInit ==
    /\ m_arming = ArmingInit
    /\ doNotRepeat = FALSE
    /\ rx = RxInit
    /\ escFrame = NoFrame
    /\ vizMotors = 0
    /\ escIsReady = FALSE
    /\ armPass = NoPass

\* History of the receiver pass that read a raised arm switch while the
\* board was disarmed and ready to arm: held says the premises still hold,
\* polls counts the polls made since the frame was read.
nextArmPass(r, a, fAux1, admitted) ==
    IF ~admitted THEN armPass
    ELSE CASE r.state = "PROCESS" /\ r.dataReq ->
                [held |-> fAux1 /\ ~a.isArmed /\ readyToArm(a), polls |-> 0]
           [] r.state = "MODES" ->
                [held |-> armPass.held /\ escIsReady, polls |-> 1]
           [] OTHER -> NoPass

\* checkDynamicTasks, case Task::RECEIVER: runTask(m_receiverTask), which
\* polls the receiver when the task is admitted, then
\* updateArmingFromReceiver on the state the poll left.
ReceiverTask ==
    \E admitted, fAux1, fThr \in BOOLEAN :
        LET r1 == IF admitted THEN poll(rx, fAux1, fThr) ELSE rx
            c  == [a |-> m_arming, ev |-> <<>>, dnr |-> doNotRepeat]
            c1 == updateArmingFromReceiver(c, r1, escIsReady)
        IN  /\ build = "board"
            /\ rx' = r1
            /\ m_arming' = c1.a
            /\ doNotRepeat' = c1.dnr
            /\ events' = c1.ev
            /\ escFrame' = NoFrame
            /\ switchOffSeen' = (switchOffSeen
                                 \/ (r1.state = "CHECK" /\ ~r1.aux1))
            /\ armPass' = nextArmPass(rx, m_arming, fAux1, admitted)
            /\ UNCHANGED <<build, vizMotors, escIsReady, hfVars>>

\* m_receiverTask.prioritize -> Receiver::check
ReceiverCheck ==
    \E gotFrame, deadlinePassed, updateDue \in BOOLEAN :
        /\ build = "board"
        /\ rx' = check(rx, gotFrame, deadlinePassed, updateDue)
        /\ events' = <<>>
        /\ escFrame' = NoFrame
        /\ UNCHANGED <<build, m_arming, doNotRepeat, vizMotors, escIsReady,
                       switchOffSeen, armPass, hfVars>>

\* checkDynamicTasks, case Task::ATTITUDE
AttitudeTask ==
    \E imuIsLevel, gyroDone, accDone \in BOOLEAN :
        /\ build = "board"
        /\ m_arming' = updateFromImu(m_arming, imuIsLevel, gyroDone, accDone)
        /\ events' = <<>>
        /\ escFrame' = NoFrame
        /\ armPass' = [armPass EXCEPT
                         !.held = @ /\ (m_arming.isArmed
                                        \/ readyToArm(m_arming'))]
        /\ UNCHANGED <<build, doNotRepeat, rx, vizMotors, escIsReady,
                       switchOffSeen, hfVars>>

\* checkDynamicTasks, case Task::VISUALIZER: a motor-test message sets the
\* override frame.
VisualizerTask ==
    \E m \in MotorValues :
        /\ build = "board"
        /\ vizMotors' = m
        /\ events' = <<>>
        /\ escFrame' = NoFrame
        /\ UNCHANGED <<build, m_arming, doNotRepeat, rx, escIsReady,
                       switchOffSeen, armPass, hfVars>>

\* checkCoreTasks: the ESC write of the inner tick.
CoreTask ==
    \E mixmotors \in MotorValues :
        /\ build = "board"
        /\ escFrame' = escWriteFrame(m_arming, mixmotors, vizMotors)
        /\ events' = <<"checkCoreTasks">>
        /\ UNCHANGED <<build, m_arming, doNotRepeat, rx, vizMotors,
                       escIsReady, switchOffSeen, armPass, hfVars>>

\* The ESC's warmup window after Esc::begin ends: isReady answers true from
\* now on.
EscWarmupDone ==
    /\ build = "board"
    /\ ~escIsReady
    /\ escIsReady' = TRUE
    /\ events' = <<>>
    /\ escFrame' = NoFrame
    /\ UNCHANGED <<build, m_arming, doNotRepeat, rx, vizMotors,
                   switchOffSeen, armPass, hfVars>>

BoardNext ==
    \/ ReceiverTask
    \/ ReceiverCheck
    \/ AttitudeTask
    \/ VisualizerTask
    \/ CoreTask
    \/ EscWarmupDone

-----------------------------------------------------------------------------
(* Hackflight: arming                                                      *)

\* checkReceiver whose throttle-down cut also clears the armed flag.
checkReceiver_throttleDisarms(c, lostSignal, ready, inArmedState, inactive, safePhi, safeTheta) ==
    IF lostSignal /\ c.h.armed
    THEN [h  |-> [c.h EXCEPT !.armed = FALSE, !.failsafe = TRUE],
          ev |-> Append(Append(c.ev, "cut"), "clear")]
    ELSE IF ~ready THEN c
    ELSE LET c1 == IF c.h.armed /\ ~inArmedState
                      THEN [h  |-> [c.h EXCEPT !.armed = FALSE],
                            ev |-> Append(c.ev, "clear")]
                      ELSE c
             c2 == IF ~c1.h.safeToArm
                      THEN [c1 EXCEPT !.h.safeToArm = ~inArmedState]
                      ELSE c1
             c3 == IF /\ c2.h.safeToArm /\ ~c2.h.armed /\ inactive
                      /\ inArmedState /\ ~c2.h.failsafe
                      /\ safePhi /\ safeTheta
                      THEN [h  |-> [c2.h EXCEPT !.armed = TRUE],
                            ev |-> Append(c2.ev, "arm")]
                      ELSE c2
         IN  IF c3.h.armed /\ inactive
                THEN [h  |-> [c3.h EXCEPT !.armed = FALSE],
                      ev |-> Append(Append(c3.ev, "throttleCut"), "clear")]
                ELSE c3

\* void checkReceiver(void).  c is [h |-> [armed, failsafe, safeToArm],
\* ev |-> events]; the receiver's answers and safeAngle are the inputs.
checkReceiver(c, lostSignal, ready, inArmedState, inactive, safePhi, safeTheta) ==
    IF lostSignal /\ c.h.armed
    THEN [h  |-> [c.h EXCEPT !.armed = FALSE, !.failsafe = TRUE],
          ev |-> Append(Append(c.ev, "cut"), "clear")]
    ELSE IF ~ready THEN c
    ELSE LET \* Disarm
             c1 == IF c.h.armed /\ ~inArmedState
                      THEN [h  |-> [c.h EXCEPT !.armed = FALSE],
                            ev |-> Append(c.ev, "clear")]
                      ELSE c
             \* Avoid arming if aux1 switch down on startup
             c2 == IF ~c1.h.safeToArm
                      THEN [c1 EXCEPT !.h.safeToArm = ~inArmedState]
                      ELSE c1
             \* Arm
             c3 == IF /\ c2.h.safeToArm /\ ~c2.h.armed /\ inactive
                      /\ inArmedState /\ ~c2.h.failsafe
                      /\ safePhi /\ safeTheta
                      THEN [h  |-> [c2.h EXCEPT !.armed = TRUE],
                            ev |-> Append(c2.ev, "arm")]
                      ELSE c2
         IN  \* Cut motors on throttle-down
             IF c3.h.armed /\ inactive
                THEN [c3 EXCEPT !.ev = Append(@, "throttleCut")]
                ELSE c3

NoInput == [lostSignal |-> FALSE, ready |-> FALSE, inArmedState |-> FALSE,
            inactive |-> FALSE, safeAngle |-> FALSE, ran |-> FALSE]

\* Hackflight::begin(armed)
HackflightInit ==
    /\ hfBeginArmed \in BOOLEAN
    /\ hf = [armed |-> hfBeginArmed, failsafe |-> FALSE, safeToArm |-> FALSE]
    /\ hfIn = NoInput

\* Hackflight::update -> checkReceiver
CheckReceiver ==
    \E lostSignal, ready, inArmedState, inactive, safePhi, safeTheta
            \in BOOLEAN :
        LET c1 == checkReceiver([h |-> hf, ev |-> <<>>], lostSignal, ready,
                                inArmedState, inactive, safePhi, safeTheta)
            seen == ~(lostSignal /\ hf.armed) /\ ready
        IN  /\ build = "hackflight"
            /\ hf' = c1.h
            /\ events' = c1.ev
            /\ hfIn' = [lostSignal |-> lostSignal, ready |-> ready,
                        inArmedState |-> inArmedState, inactive |-> inactive,
                        safeAngle |-> safePhi /\ safeTheta, ran |-> TRUE]
            /\ switchOffSeen' = (switchOffSeen \/ (seen /\ ~inArmedState))
            /\ UNCHANGED <<build, hfBeginArmed, boardVars>>

HackflightNext == CheckReceiver

-----------------------------------------------------------------------------
(* Receiver: channel ranging and signal-loss behaviour                     *)

\* A uint32_t u is held as the integer of the same 32 bits read as int32_t
\* (u when u < 2^31, u - 2^32 otherwise), so that every intermediate value
\* stays within 32 bits.
MinInt32 == -2147483647 - 1
MaxInt32 == -(MinInt32 + 1)

\* uint32_t a + d, for 0 <= d < 2^31, wrapping at 2^32.
add32(a, d) ==
    IF a > MaxInt32 - d THEN (a + MinInt32) + (d + MinInt32) ELSE a + d

\* static inline int32_t cmp32(uint32_t a, uint32_t b): (int32_t)(a - b)
cmp32(a, b) ==
    IF (a >= 0) = (b >= 0) THEN a - b
    ELSE IF a >= 0
            THEN IF a + MinInt32 < b
                    THEN a - b
                    ELSE (a + MinInt32) - (b - MinInt32)
            ELSE IF a - MinInt32 < b
                    THEN (a - MinInt32) - (b + MinInt32)
                    ELSE a - b

\* uint32_t currentTimeUs / 1000
usToMs(us) ==
    IF us >= 0 THEN us \div 1000 ELSE 4294967 + ((us + 296) \div 1000)

\* Channel indices (datatypes.h); the first four are the flight channels.
THROTTLE == 0
ROLL == 1
PITCH == 2
YAW == 3
AUX1 == 4

NEED_SIGNAL_MAX_DELAY_US == 100000
MAX_INVALID__PULSE_TIME == 300
PWM_PULSE_MIN == 750
PWM_PULSE_MAX == 2250

\* The channels the model follows, of the CHANNEL_COUNT the receiver has:
\* two flight channels and one auxiliary channel.
Channels == {THROTTLE, ROLL, AUX1}

\* The pulse widths a frame may carry: one below the valid range and one in
\* it on every channel, and a second valid one on the followed channel.
Pulses == {800, 1500, 1600}

FramePulses(channel, followed) ==
    IF channel = followed THEN Pulses ELSE {800, 1500}

Frames(followed) ==
    {f \in [Channels -> Pulses] :
        \A channel \in Channels : f[channel] \in FramePulses(channel, followed)}

\* Number of NEED_SIGNAL_MAX_DELAY_US-long steps the clock makes.
MaxTicks == 3

\* static bool isPulseValid(uint16_t pulseDuration)
isPulseValid(pulseDuration) ==
    pulseDuration >= 885 /\ pulseDuration <= 2115

\* static uint8_t rxfail_step_to_channel_value(uint8_t step)
rxfail_step_to_channel_value(step) == (PWM_PULSE_MIN + 25 * step) % 256

\* failsafeChannelConfigs[channel] as getFailValue fills it in: mode 0 (AUTO)
\* for the flight channels, 1 (HOLD) for the others; the step values.
failsafeChannelMode(channel) == IF channel < 4 THEN "AUTO" ELSE "HOLD"

failsafeChannelStep(channel) == IF channel = 3 THEN 5 ELSE 30

\* getFailValue that holds the current value on every channel.
getFailValue_holdAll(rcData, channel) == rcData[channel]

\* static uint16_t getFailValue(float * rcData, uint8_t channel)
getFailValue(rcData, channel) ==
    CASE failsafeChannelMode(channel) = "AUTO" ->
            IF channel = ROLL \/ channel = PITCH \/ channel = YAW
               THEN 1500 ELSE 885
      [] failsafeChannelMode(channel) \in {"HOLD", "INVALID"} ->
            rcData[channel]
      [] failsafeChannelMode(channel) = "SET" ->
            rxfail_step_to_channel_value(failsafeChannelStep(channel))
      [] OTHER -> 0

\* static float applyChannelRangeConfiguraton(float sample)
applyChannelRangeConfiguraton(sample) ==
    IF sample = 0 THEN 0
    ELSE IF sample < PWM_PULSE_MIN THEN PWM_PULSE_MIN
    ELSE IF sample > PWM_PULSE_MAX THEN PWM_PULSE_MAX
    ELSE sample

\* void readChannelsApplyRanges(float raw[]): the value written to
\* raw[channel] for the sample the driver converted.
readChannelsApplyRanges(samples) ==
    [channel \in Channels |->
        IF channel < 4 THEN applyChannelRangeConfiguraton(samples[channel])
                       ELSE samples[channel]]

\* void detectAndApplySignalLossBehaviour(arming, failsafe, currentTimeUs, raw)
\* on the array raw that readChannelsApplyRanges has just written.  The
\* result is [raw, period, inFailsafe, failsafe], failsafe being the Failsafe
\* method called.
detectAndApplySignalLossBehaviour(raw, period, signalReceived, inFailsafe, currentTimeUs) ==
    LET currentTimeMs == usToMs(currentTimeUs)
        useValueFromRx == signalReceived /\ ~inFailsafe
        validPulse(channel) == useValueFromRx /\ isPulseValid(raw[channel])
        held(channel) ==
            ~validPulse(channel)
            /\ cmp32(currentTimeMs, period[channel]) < 0
        raw1 == [channel \in Channels |->
                    IF validPulse(channel) \/ held(channel)
                       THEN raw[channel]
                       ELSE getFailValue(raw, channel)]
        period1 == [channel \in Channels |->
                      IF validPulse(channel)
                         THEN add32(currentTimeMs, MAX_INVALID__PULSE_TIME)
                         ELSE period[channel]]
        flightChannelsValid ==
            \A channel \in Channels :
                channel < 4 => (validPulse(channel) \/ held(channel))
    IN  IF flightChannelsValid
           THEN [raw |-> raw1, period |-> period1, inFailsafe |-> inFailsafe,
                 failsafe |-> "onValidDataReceived"]
           ELSE [raw |-> [channel \in Channels |->
                             getFailValue(raw1, channel)],
                 period |-> period1, inFailsafe |-> TRUE,
                 failsafe |-> "onValidDataFailed"]

NoRxEvent == [op |-> "none", sample |-> 0, failsafe |-> "none"]

NoPulse == [val |-> 0, ms |-> 0, seen |-> FALSE]

\* The receiver object before the first frame: members zeroed.
ChannelInit ==
    /\ now = 0
    /\ clockTicks = 0
    /\ m_raw = [channel \in Channels |-> 0]
    /\ m_invalidPulsePeriod = [channel \in Channels |-> 0]
    /\ m_signalReceived = FALSE
    /\ m_inFailsafeMode = FALSE
    /\ m_dataProcessingRequired = FALSE
    /\ watch \in Channels
    /\ lastValid = NoPulse
    /\ rxEvent = NoRxEvent

\* Receiver::check(currentTimeUs), called ticks steps after the previous
\* call: the driver's frame status sets the failsafe and signal flags.
\* deadlinePassed is the test against m_needSignalBefore, updateDue the one
\* against m_nextUpdateAtUs.
RxCheck ==
    \E ticks \in 0..1, complete, failsafe, dropped, deadlinePassed, updateDue
            \in BOOLEAN :
        LET inFailsafe == IF complete THEN failsafe ELSE m_inFailsafeMode
            signalReceived == complete /\ ~(inFailsafe \/ dropped)
        IN  /\ clockTicks + ticks <= MaxTicks
            /\ clockTicks' = clockTicks + ticks
            /\ now' = add32(now, ticks * NEED_SIGNAL_MAX_DELAY_US)
            /\ m_inFailsafeMode' = inFailsafe
            /\ m_signalReceived' =
                  IF signalReceived THEN TRUE
                  ELSE IF deadlinePassed THEN FALSE ELSE m_signalReceived
            /\ m_dataProcessingRequired' =
                  (m_dataProcessingRequired \/ signalReceived \/ updateDue)
            /\ rxEvent' = [NoRxEvent EXCEPT !.op = "check"]
            /\ UNCHANGED <<m_raw, m_invalidPulsePeriod, watch, lastValid,
                           armingVars>>

\* Receiver::poll in STATE_PROCESS -> calculateChannelsAndUpdateFailsafe with
\* data processing required: the channels are read from the driver's buffer
\* (samples), ranged, and passed through the signal-loss behaviour.
RxProcess ==
    \E samples \in Frames(watch) :
        LET raw0 == readChannelsApplyRanges(samples)
            r == detectAndApplySignalLossBehaviour(
                     raw0, m_invalidPulsePeriod, m_signalReceived,
                     m_inFailsafeMode, now)
            valid == m_signalReceived /\ ~m_inFailsafeMode
                     /\ isPulseValid(raw0[watch])
        IN  /\ m_dataProcessingRequired
            /\ m_dataProcessingRequired' = FALSE
            /\ m_raw' = r.raw
            /\ m_invalidPulsePeriod' = r.period
            /\ m_inFailsafeMode' = r.inFailsafe
            /\ lastValid' = IF valid
                               THEN [val |-> raw0[watch],
                                     ms |-> usToMs(now), seen |-> TRUE]
                               ELSE lastValid
            /\ rxEvent' = [op |-> "process", sample |-> samples[watch],
                           failsafe |-> r.failsafe]
            /\ UNCHANGED <<now, clockTicks, m_signalReceived, watch,
                           armingVars>>

ChannelNext ==
    \/ RxCheck /\ UNCHANGED <<signalVars, stepVars, governorVars, parserVars, serializeVars, smoothingVars, failValueVars, pollVars, spiVars>>
    \/ RxProcess /\ UNCHANGED <<signalVars, stepVars, governorVars, parserVars, serializeVars, smoothingVars, failValueVars, pollVars, spiVars>>

-----------------------------------------------------------------------------
(* Receiver: the signal deadline of Receiver::check                        *)

\* uint32_t a >= b, on the 32-bit representation.
geU32(a, b) == IF (a >= 0) = (b >= 0) THEN a >= b ELSE a < 0

\* Clock step between two calls of Receiver::check: half the signal delay.
SigTickUs == NEED_SIGNAL_MAX_DELAY_US \div 2

\* Number of SigTickUs-long steps the clock makes.
MaxSigTicks == 5

\* Values of micros() at the first call: power-on, and three steps before the
\* 32-bit counter wraps to 0.
ClockStarts == {0, -(3 * SigTickUs)}

NoGood == [seen |-> FALSE, us |-> 0]

NoSigEvent == [ran |-> FALSE, good |-> FALSE, deadlinePassed |-> FALSE]

SignalInit ==
    /\ m_needSignalBefore = 0
    /\ lastGood = NoGood
    /\ sigEvent = NoSigEvent

\* Receiver::check(currentTimeUs), called ticks steps after the previous
\* call.  inCheckState is m_state == STATE_CHECK; complete, failsafe and
\* dropped are the bits of the frame status devCheck returns; updateDue is
\* the test against m_nextUpdateAtUs.
SignalCheck ==
    \E ticks \in 0..1, inCheckState, complete, failsafe, dropped, updateDue \in BOOLEAN :
        LET currentTimeUs == add32(now, ticks * SigTickUs)
            inFailsafe == IF complete THEN failsafe ELSE m_inFailsafeMode
            signalReceived == complete /\ ~(inFailsafe \/ dropped)
            deadlinePassed == geU32(currentTimeUs, m_needSignalBefore)
        IN  /\ clockTicks + ticks <= MaxSigTicks
            /\ clockTicks' = clockTicks + ticks
            /\ now' = currentTimeUs
            /\ IF ~inCheckState
                  THEN /\ sigEvent' = NoSigEvent
                       /\ UNCHANGED <<m_inFailsafeMode, m_signalReceived,
                                      m_dataProcessingRequired,
                                      m_needSignalBefore, lastGood>>
                  ELSE /\ m_inFailsafeMode' = inFailsafe
                       /\ m_needSignalBefore' =
                             IF signalReceived
                                THEN add32(currentTimeUs,
                                           NEED_SIGNAL_MAX_DELAY_US)
                                ELSE m_needSignalBefore
                       /\ m_signalReceived' =
                             IF signalReceived THEN TRUE
                             ELSE IF deadlinePassed THEN FALSE
                             ELSE m_signalReceived
                       /\ m_dataProcessingRequired' =
                             (m_dataProcessingRequired \/ signalReceived
                              \/ updateDue)
                       /\ lastGood' =
                             IF signalReceived
                                THEN [seen |-> TRUE, us |-> currentTimeUs]
                                ELSE lastGood
                       /\ sigEvent' = [ran |-> TRUE, good |-> signalReceived,
                                       deadlinePassed |-> deadlinePassed]
            /\ UNCHANGED <<m_raw, m_invalidPulsePeriod, watch, lastValid,
                           rxEvent, armingVars>>

SignalNext == SignalCheck /\ UNCHANGED <<stepVars, governorVars, parserVars, serializeVars, smoothingVars, failValueVars, pollVars, spiVars>>

-----------------------------------------------------------------------------
(* Board::step: the inner tick (checkCoreTasks) and the outer tasks        *)

\* Cycles between two inner-tick targets.
DesiredPeriod == 4

\* Cycles the model lets elapse after power-on.
MaxCycles == 8

\* Largest gyro sample and demands frame.
MaxSample == 1

\* Largest task age and largest worst-case cycle count of a task.
MaxAge == 2

MaxWorst == 1

\* Values of the cycle counter at power-on: 0, and three cycles before the
\* 32-bit counter wraps.
CycleStarts == {0, -3}

Samples == 1..MaxSample

\* The outer tasks of Board, in the order checkDynamicTasks prioritizes them.
Tasks == <<"RECEIVER", "ATTITUDE", "VISUALIZER">>

\* intcmp(a, b): the signed difference (int32_t)(a - b)
intcmp(a, b) == cmp32(a, b)

\* A spin-wait that never waits.
spinContinues_never(remaining) == FALSE

\* while (loopRemainingCycles > 0)
spinContinues(remaining) == remaining > 0

\* Board::step that calls checkDynamicTasks right after the demands are read.
stepNext_taskInTick(at, cond) ==
    CASE at = "step"    -> IF cond THEN "spin" ELSE "dynamic"
      [] at = "spin"    -> IF cond THEN "spin" ELSE "gyro"
      [] at = "gyro"    -> "demands"
      [] at = "demands" -> "dynamic"
      [] at = "mixer"   -> "write"
      [] at = "write"   -> "post"
      [] at = "post"    -> "dynamic"
      [] OTHER          -> "step"

\* checkCoreTasks that skips the rest of the tick when the gyro is not ready.
stepNext_skipTick(at, cond) ==
    CASE at = "step"    -> IF cond THEN "spin" ELSE "dynamic"
      [] at = "spin"    -> IF cond THEN "spin" ELSE "gyro"
      [] at = "gyro"    -> IF cond THEN "demands" ELSE "post"
      [] at = "demands" -> "mixer"
      [] at = "mixer"   -> "write"
      [] at = "write"   -> "post"
      [] at = "post"    -> "dynamic"
      [] OTHER          -> "step"

\* Control flow of Board::step and checkCoreTasks: the position that follows
\* at.  cond is isCoreReady at "step", the loop condition at "spin" and
\* gyroIsReady at "gyro".
stepNext(at, cond) ==
    CASE at = "step"    -> IF cond THEN "spin" ELSE "dynamic"
      [] at = "spin"    -> IF cond THEN "spin" ELSE "gyro"
      [] at = "gyro"    -> "demands"
      [] at = "demands" -> "mixer"
      [] at = "mixer"   -> "write"
      [] at = "write"   -> "post"
      [] at = "post"    -> "dynamic"
      [] OTHER          -> "step"

\* Task::checkReady(nextTargetCycles, nowCycles, taskGuardCycles) of a task
\* whose anticipated execution takes worst cycles: the cycles the task
\* requires when they fit before the next target, 0 otherwise.
checkReady(nextTarget, nowC, guard, worst) ==
    IF worst + guard < intcmp(nextTarget, nowC) THEN worst + guard ELSE 0

\* uint32_t getAnticipatedEndCycles(Task & task), on the value checkReady
\* returned and the cycle counter it read.
getAnticipatedEndCycles(taskRequiredCycles, nowC) ==
    IF taskRequiredCycles # 0 THEN add32(nowC, taskRequiredCycles) ELSE 0

\* Task::prioritize(usec, prioritizer) of task id whose age is age.
prioritize(id, age, p) ==
    IF age >= 1 /\ age > p.prioritizer
       THEN [id |-> id, prioritizer |-> age]
       ELSE p

\* The prioritize calls made in the opposite order.
prioritizeTasks_reversed(ages) ==
    LET p0 == [id |-> "NONE", prioritizer |-> 0]
        p1 == prioritize(Tasks[3], ages[Tasks[3]], p0)
        p2 == prioritize(Tasks[2], ages[Tasks[2]], p1)
    IN  prioritize(Tasks[1], ages[Tasks[1]], p2)

\* checkDynamicTasks: prioritizer = {Task::NONE, 0}, then the prioritize
\* calls of the receiver, attitude and visualizer tasks.
prioritizeTasks(ages) ==
    LET p0 == [id |-> "NONE", prioritizer |-> 0]
        p1 == prioritize(Tasks[1], ages[Tasks[1]], p0)
        p2 == prioritize(Tasks[2], ages[Tasks[2]], p1)
    IN  prioritize(Tasks[3], ages[Tasks[3]], p2)

NoTick ==
    [log |-> <<>>, spun |-> FALSE, gyroWasReady |-> FALSE, vstateBefore |-> 0,
     demands |-> 0, mix |-> [demands |-> 0, vstate |-> 0]]

NoDyn ==
    [ready |-> FALSE, ages |-> [i \in 1..3 |-> 0], picked |-> "NONE",
     called |-> FALSE, required |-> 0, ran |-> FALSE, postRuns |-> 0]

StepInit ==
    /\ pc = "step"
    /\ nowCycles \in CycleStarts
    /\ cyclesRun = 0
    /\ nextTargetCycles = add32(nowCycles, DesiredPeriod)
    /\ targetRun = DesiredPeriod
    /\ loopRemainingCycles = 0
    /\ gyro = [ready |-> FALSE, sample |-> 0]
    /\ vstate = 0
    /\ rxDemands = 0
    /\ tick = NoTick
    /\ dynEvent = NoDyn

\* Board::step: nowCycles = getCycleCounter(), m_scheduler.isCoreReady; when
\* the core is ready checkCoreTasks starts: it takes the scheduler's
\* remaining cycles and next target.
StepBegin ==
    \E adv \in 0..2, coreReady \in BOOLEAN :
        /\ pc = "step"
        /\ cyclesRun + adv <= MaxCycles
        /\ cyclesRun' = cyclesRun + adv
        /\ nowCycles' = add32(nowCycles, adv)
        /\ loopRemainingCycles' = intcmp(nextTargetCycles, nowCycles')
        /\ pc' = stepNext("step", coreReady)
        /\ tick' = [NoTick EXCEPT
                      !.log = IF coreReady THEN <<"spin">> ELSE <<>>,
                      !.vstateBefore = vstate]
        /\ dynEvent' = NoDyn
        /\ UNCHANGED <<nextTargetCycles, targetRun, gyro, vstate, rxDemands>>

\* One turn of the spin-wait loop of checkCoreTasks, or its exit.
Spin ==
    /\ pc = "spin"
    /\ pc' = stepNext("spin", spinContinues(loopRemainingCycles))
    /\ IF spinContinues(loopRemainingCycles)
          THEN \E adv \in 1..2 :
                  /\ cyclesRun + adv <= MaxCycles
                  /\ cyclesRun' = cyclesRun + adv
                  /\ nowCycles' = add32(nowCycles, adv)
                  /\ loopRemainingCycles' =
                        intcmp(nextTargetCycles, nowCycles')
                  /\ tick' = [tick EXCEPT !.spun = TRUE]
          ELSE UNCHANGED <<cyclesRun, nowCycles, loopRemainingCycles, tick>>
    /\ UNCHANGED <<nextTargetCycles, targetRun, gyro, vstate, rxDemands,
                   dynEvent>>

\* if (m_imu->gyroIsReady()) { readGyroDps into m_vstate }
GyroRead ==
    /\ pc = "gyro"
    /\ pc' = stepNext("gyro", gyro.ready)
    /\ vstate' = IF gyro.ready THEN gyro.sample ELSE vstate
    /\ gyro' = [gyro EXCEPT !.ready = FALSE]
    /\ tick' = [tick EXCEPT !.log = Append(@, "gyro"),
                            !.gyroWasReady = gyro.ready]
    /\ UNCHANGED <<nowCycles, cyclesRun, nextTargetCycles, targetRun,
                   loopRemainingCycles, rxDemands, dynEvent>>

\* Demands demands = m_receiverTask.receiver->getDemands()
GetDemands ==
    /\ pc = "demands"
    /\ pc' = stepNext("demands", TRUE)
    /\ tick' = [tick EXCEPT !.log = Append(@, "demands"),
                            !.demands = rxDemands]
    /\ UNCHANGED <<nowCycles, cyclesRun, nextTargetCycles, targetRun,
                   loopRemainingCycles, gyro, vstate, rxDemands, dynEvent>>

\* m_mixer->step(demands, m_vstate, ...)
MixerStep ==
    /\ pc = "mixer"
    /\ pc' = stepNext("mixer", TRUE)
    /\ tick' = [tick EXCEPT !.log = Append(@, "mixer"),
                            !.mix = [demands |-> tick.demands,
                                     vstate |-> vstate]]
    /\ UNCHANGED <<nowCycles, cyclesRun, nextTargetCycles, targetRun,
                   loopRemainingCycles, gyro, vstate, rxDemands, dynEvent>>

\* m_esc->write(...)
EscWrite ==
    /\ pc = "write"
    /\ pc' = stepNext("write", TRUE)
    /\ tick' = [tick EXCEPT !.log = Append(@, "write")]
    /\ UNCHANGED <<nowCycles, cyclesRun, nextTargetCycles, targetRun,
                   loopRemainingCycles, gyro, vstate, rxDemands, dynEvent>>

\* m_scheduler.corePostUpdate(nowCycles) and the rest of checkCoreTasks: the
\* next target moves one period on.
CorePost ==
    /\ pc = "post"
    /\ pc' = stepNext("post", TRUE)
    /\ nextTargetCycles' = add32(nextTargetCycles, DesiredPeriod)
    /\ targetRun' = targetRun + DesiredPeriod
    /\ tick' = [tick EXCEPT !.log = Append(@, "post")]
    /\ UNCHANGED <<nowCycles, cyclesRun, loopRemainingCycles, gyro, vstate,
                   rxDemands, dynEvent>>

\* if (m_scheduler.isDynamicReady(getCycleCounter())) checkDynamicTasks():
\* the tasks are prioritized, the chosen one goes through runTask (or
\* runVisualizerTask): getAnticipatedEndCycles, then the task body and
\* postRunTask when the anticipated end is not 0.  A receiver task that runs
\* leaves a new demands frame.
Dynamic ==
    \E dynReady \in BOOLEAN, adv \in 0..1 :
        /\ pc = "dynamic"
        /\ cyclesRun + adv <= MaxCycles
        /\ cyclesRun' = cyclesRun + adv
        /\ nowCycles' = add32(nowCycles, adv)
        /\ pc' = stepNext("dynamic", TRUE)
        /\ tick' = [tick EXCEPT !.log = Append(@, "dynamic")]
        /\ IF ~dynReady
              THEN dynEvent' = NoDyn /\ UNCHANGED rxDemands
              ELSE \E ages \in [1..3 -> 0..MaxAge] :
                      LET p == prioritizeTasks(
                                  [i \in {Tasks[1], Tasks[2], Tasks[3]} |->
                                      ages[CHOOSE k \in 1..3 : Tasks[k] = i]])
                      IN  IF p.id = "NONE"
                             THEN /\ dynEvent' = [NoDyn EXCEPT !.ready = TRUE,
                                                               !.ages = ages]
                                  /\ UNCHANGED rxDemands
                             ELSE \E worst \in 1..MaxWorst, guard \in 0..1 :
                                     LET required == checkReady(nextTargetCycles, nowCycles', guard, worst)
                                         endC == getAnticipatedEndCycles(required, nowCycles')
                                         ran == endC # 0
                                     IN  /\ dynEvent' =
                                               [ready |-> TRUE, ages |-> ages,
                                                picked |-> p.id,
                                                called |-> TRUE,
                                                required |-> required,
                                                ran |-> ran,
                                                postRuns |-> IF ran THEN 1 ELSE 0]
                                         /\ IF ran /\ p.id = "RECEIVER"
                                               THEN rxDemands' \in Samples
                                               ELSE UNCHANGED rxDemands
        /\ UNCHANGED <<nextTargetCycles, targetRun, loopRemainingCycles,
                       gyro, vstate>>

\* The gyro interrupt: a new sample is latched and flagged ready.
GyroInterrupt ==
    \E sample \in Samples :
        /\ gyro' = [ready |-> TRUE, sample |-> sample]
        /\ UNCHANGED <<pc, nowCycles, cyclesRun, nextTargetCycles, targetRun,
                       loopRemainingCycles, vstate, rxDemands, tick,
                       dynEvent>>

StepNext ==
    \/ StepBegin /\ UNCHANGED notStepVars
    \/ Spin /\ UNCHANGED notStepVars
    \/ GyroRead /\ UNCHANGED notStepVars
    \/ GetDemands /\ UNCHANGED notStepVars
    \/ MixerStep /\ UNCHANGED notStepVars
    \/ EscWrite /\ UNCHANGED notStepVars
    \/ CorePost /\ UNCHANGED notStepVars
    \/ Dynamic /\ UNCHANGED notStepVars
    \/ GyroInterrupt /\ UNCHANGED notStepVars

-----------------------------------------------------------------------------
(* Board::checkCoreTasks: locking the scheduler to the gyro                *)

\* Gyro interrupt counts over which to measure loop time and skew
CORE_RATE_COUNT == 25000

GYRO_LOCK_COUNT == 400

\* Gyro periods in cycles of a 168 MHz counter: 8 kHz and 1 kHz sampling.
GyroPeriods == {21000, 168000}

\* Rate windows the model runs through.
MaxWindows == 2

\* Largest delay, in cycles, between a gyro interrupt and the tick's reading
\* of the cycle counter.
MaxJitter == 1

\* Values of Imu::getGyroSkew, and of m_scheduler.lastTargetCycles when the
\* tick starts.
Skews == {-1, 0, 1}

LastTargets == {0, 1000}

\* uint32_t a - b, wrapping at 2^32.
sub32(a, b) == cmp32(a, b)

\* The division done on signed operands.
udiv32_signed(a, b) ==
    IF a >= 0 THEN a \div b ELSE -((-a) \div b)

\* uint32_t a / b on the 32-bit representation, for 0 < b < 2^31: when a
\* stands for a + 2^32, the quotient is put together from those of
\* a - 2^31 and of 2^31.
udiv32(a, b) ==
    IF a >= 0 THEN a \div b
    ELSE LET x == a - MinInt32
             q0 == MaxInt32 \div b
             r0 == (MaxInt32 % b) + 1
         IN  q0 + (x \div b) + ((r0 + (x % b)) \div b)

\* _gyroSkewAccum / GYRO_LOCK_COUNT as a signed per-sample average.
SignedAverage(accum) ==
    IF accum >= 0 THEN accum \div GYRO_LOCK_COUNT
                  ELSE -((-accum) \div GYRO_LOCK_COUNT)

\* The cycle counter after `interrupts` more gyro periods.
RECURSIVE advance(_, _, _)
advance(cycles, period, interrupts) ==
    IF interrupts >= 1000
       THEN advance(add32(cycles, 1000 * period), period, interrupts - 1000)
       ELSE add32(cycles, interrupts * period)

NoGov ==
    [tuned |-> FALSE, locked |-> FALSE, startCount |-> 0, startJitter |-> 0,
     interrupts |-> 0, delta |-> 0, accum |-> 0, lastTargetBefore |-> 0,
     windows |-> 0]

GovernorInit ==
    /\ gyroPeriod \in GyroPeriods
    /\ gyroCount = 0
    /\ gyroLatch = 0
    /\ terminalGyroRateCount = 0
    /\ sampleRateStartCycles = 0
    /\ desiredPeriodCycles = gyroPeriod
    /\ terminalGyroLockCount = 0
    /\ gyroSkewAccum = 0
    /\ lastTargetCycles = 0
    /\ gov = NoGov

\* The ticks between two ticks that matter: each takes one gyro period and
\* finds neither count reached, so that only the skew accumulates.
GovernorIdleTicks ==
    \E gyroSkew \in Skews :
        LET toRate == cmp32(terminalGyroRateCount, gyroCount)
            toLock == cmp32(terminalGyroLockCount, gyroCount)
            ticks == (IF toRate < toLock THEN toRate ELSE toLock) - 1
        IN  /\ terminalGyroRateCount # 0
            /\ terminalGyroLockCount # 0
            /\ ticks >= 1
            /\ gyroCount' = gyroCount + ticks
            /\ gyroLatch' = advance(gyroLatch, gyroPeriod, ticks)
            /\ gyroSkewAccum' = gyroSkewAccum + ticks * gyroSkew
            /\ gov' = [gov EXCEPT !.tuned = FALSE, !.locked = FALSE]
            /\ UNCHANGED <<gyroPeriod, terminalGyroRateCount,
                           sampleRateStartCycles, desiredPeriodCycles,
                           terminalGyroLockCount, lastTargetCycles>>

\* One tick, one gyro period after the previous one: the part of
\* checkCoreTasks after corePostUpdate.
GovernorTick ==
    \E jitter \in 0..MaxJitter, gyroSkew \in Skews, lastTargetBefore \in LastTargets :
        LET count == gyroCount + 1
            latch == add32(gyroLatch, gyroPeriod)
            nowC == add32(latch, jitter)
            first == terminalGyroRateCount = 0
            terminalRate == IF first THEN add32(count, CORE_RATE_COUNT)
                                     ELSE terminalGyroRateCount
            startCycles == IF first THEN nowC ELSE sampleRateStartCycles
            tuned == geU32(count, terminalRate)
            sampleCycles == sub32(nowC, startCycles)
            accum == gyroSkewAccum + gyroSkew
            terminalLock == IF terminalGyroLockCount = 0
                               THEN add32(count, GYRO_LOCK_COUNT)
                               ELSE terminalGyroLockCount
            locked == geU32(count, terminalLock)
        IN  /\ \/ first
               \/ count = terminalGyroRateCount
               \/ count = terminalGyroLockCount
            /\ gov.windows < MaxWindows
            /\ gyroCount' = count
            /\ gyroLatch' = latch
            /\ desiredPeriodCycles' =
                  IF tuned THEN udiv32(sampleCycles, CORE_RATE_COUNT)
                           ELSE desiredPeriodCycles
            /\ sampleRateStartCycles' = IF tuned THEN nowC ELSE startCycles
            /\ terminalGyroRateCount' =
                  IF tuned THEN add32(terminalRate, CORE_RATE_COUNT)
                           ELSE terminalRate
            /\ terminalGyroLockCount' =
                  IF locked THEN add32(terminalLock, GYRO_LOCK_COUNT)
                            ELSE terminalLock
            /\ lastTargetCycles' =
                  IF locked
                     THEN sub32(lastTargetBefore,
                                udiv32(accum, GYRO_LOCK_COUNT))
                     ELSE lastTargetBefore
            /\ gyroSkewAccum' = IF locked THEN 0 ELSE accum
            /\ gov' = [tuned |-> tuned,
                       locked |-> locked,
                       startCount |-> IF first \/ tuned THEN count
                                                        ELSE gov.startCount,
                       startJitter |-> IF first \/ tuned THEN jitter
                                                         ELSE gov.startJitter,
                       interrupts |-> IF tuned THEN count - gov.startCount
                                               ELSE 0,
                       delta |-> IF tuned THEN jitter - gov.startJitter
                                          ELSE 0,
                       accum |-> accum,
                       lastTargetBefore |-> lastTargetBefore,
                       windows |-> IF tuned THEN gov.windows + 1
                                            ELSE gov.windows]
            /\ UNCHANGED gyroPeriod

GovernorNext ==
    \/ GovernorIdleTicks /\ UNCHANGED notGovernorVars
    \/ GovernorTick /\ UNCHANGED notGovernorVars

-----------------------------------------------------------------------------
(* parser.hpp: the MSP parser                                              *)

\* Calls of parser_parse the model makes.
MaxCalls == 8

\* Last index of the buffer the model keeps (the longest reply has 30 bytes).
BufferLast == 29

\* Bytes of a reply the caller reads between two calls of parser_parse.
MaxReads == 2

\* The bytes the serial line delivers in one run: '$', 'M', '<' and either
\* 0, 2, 122 and 215 or 0 and 121 (sizes, types, payload bytes and checksums
\* are taken among the latter).
SerialLines == {{36, 77, 60, 0, 2, 122, 215}, {36, 77, 60, 0, 121}}

\* Telemetry values are held in units of 0.0001.  Attitude triples (phi,
\* theta, psi) and receiver sextuples handed to parser_parse.
AngleInputs == {<<0, 0, 0>>, <<7, 10000, -25000>>}

ReceiverInputs == {<<0, 0, 0, 0, 0, 0>>, <<7, -10000, 10000, 5000, -25000, 0>>}

\* What the conversion of a negative float to uint32_t yields: 0 where the
\* instruction saturates, the two's complement of the truncated value where
\* it converts through a wider signed integer.
Conversions == {"saturate", "wrap"}

RECURSIVE xorBits(_, _, _)
xorBits(a, b, bits) ==
    IF bits = 0 THEN 0
    ELSE (((a % 2) + (b % 2)) % 2) + 2 * xorBits(a \div 2, b \div 2, bits - 1)

\* uint8_t a ^ b
xor8(a, b) == xorBits(a, b, 8)

\* (u >> 8*k) & 0xFF of a uint32_t in its 32-bit representation
byteOf32(u, k) ==
    LET low == IF u >= 0 THEN u ELSE u - MinInt32
    IN  CASE k = 0 -> low % 256
          [] k = 1 -> (low \div 256) % 256
          [] k = 2 -> (low \div 65536) % 256
          [] OTHER -> (low \div 16777216) + (IF u < 0 THEN 128 ELSE 0)

\* addToOutBuf(buffer, buffer_size, ready, byte) on out = [buffer, size,
\* checksum]
addToOutBuf(out, ready, byte) ==
    IF ready
       THEN [out EXCEPT !.buffer = [@ EXCEPT ![out.size] = byte],
                        !.size = (out.size + 1) % 256]
       ELSE out

\* serialize that leaves the checksum alone.
serialize_noChecksum(out, ready, byte) == addToOutBuf(out, ready, byte)

\* serialize(buffer, buffer_size, buffer_checksum, ready, byte)
serialize(out, ready, byte) ==
    LET added == addToOutBuf(out, ready, byte)
    IN  IF ready THEN [added EXCEPT !.checksum = xor8(out.checksum, byte)]
                 ELSE added

\* prepareToSerialize(buffer, buffer_size, buffer_checksum, ready, type,
\* count, size)
prepareToSerialize(out, ready, type, count, size) ==
    LET cleared == IF ready THEN [out EXCEPT !.size = 0, !.checksum = 0]
                            ELSE out
        dollar == addToOutBuf(cleared, ready, 36)
        em == addToOutBuf(dollar, ready, 77)
        gt == addToOutBuf(em, ready, 62)
        len == serialize(gt, ready, (count * size) % 256)
    IN  serialize(len, ready, type)

\* completeSend(buffer, buffer_size, buffer_checksum, ready)
completeSend(out, ready) == serialize(out, ready, out.checksum)

\* prepareToSerializeFloats(buffer, buffer_size, buffer_checksum, ready,
\* type, count)
prepareToSerializeFloats(out, ready, type, count) ==
    prepareToSerialize(out, ready, type, count, 4)

\* The conversion rounding to the nearest integer.
floatToUint32_rounded(value, conversion) ==
    LET tenths == value + 20000
    IN  IF tenths >= 0 THEN (tenths + 5) \div 10
        ELSE IF conversion = "saturate" THEN 0 ELSE -((5 - tenths) \div 10)

\* uint32_t uintval = 1000 * (value + 2), value in units of 0.0001: the
\* conversion truncates toward zero and is undefined when the truncated value
\* is negative.
floatToUint32(value, conversion) ==
    LET tenths == value + 20000
    IN  IF tenths >= 0 THEN tenths \div 10
        ELSE IF conversion = "saturate" THEN 0 ELSE -((-tenths) \div 10)

\* serializeFloat(buffer, buffer_size, buffer_checksum, ready, value)
serializeFloat(out, ready, value, conversion) ==
    LET uintval == floatToUint32(value, conversion)
        b0 == serialize(out, ready, byteOf32(uintval, 0))
        b1 == serialize(b0, ready, byteOf32(uintval, 1))
        b2 == serialize(b1, ready, byteOf32(uintval, 2))
    IN  serialize(b2, ready, byteOf32(uintval, 3))

RECURSIVE serializeFloats(_, _, _, _)
serializeFloats(out, ready, values, conversion) ==
    IF values = <<>> THEN out
    ELSE serializeFloats(serializeFloat(out, ready, Head(values), conversion),
                         ready, Tail(values), conversion)

\* bool ready = stream_serialAvailable && parser_state_ == 0 &&
\*              crc_ == stream_serialByte
messageReady(available, state, crc, byte) ==
    available /\ state = 0 /\ crc = byte

\* The framing of the protocol, '$' 'M' '<'|'>' size type payload checksum,
\* followed strictly: a byte that does not continue the frame ends it.
NoFrameSeen ==
    [at |-> 0, size |-> 0, type |-> 0, payload |-> <<>>, sum |-> 0,
     done |-> "none"]

frameStep(f, byte) ==
    LET idle == [NoFrameSeen EXCEPT !.at = IF byte = 36 THEN 1 ELSE 0]
    IN  CASE f.at = 0 -> idle
          [] f.at = 1 -> IF byte = 77 THEN [idle EXCEPT !.at = 2] ELSE idle
          [] f.at = 2 -> IF byte \in {60, 62} THEN [idle EXCEPT !.at = 3]
                                             ELSE idle
          [] f.at = 3 -> [idle EXCEPT !.at = 4, !.size = byte, !.sum = byte]
          [] f.at = 4 -> [f EXCEPT !.at = 5, !.type = byte,
                                   !.sum = xor8(f.sum, byte),
                                   !.done = "none"]
          [] OTHER ->
               IF Len(f.payload) < f.size
                  THEN [f EXCEPT !.payload = Append(@, byte),
                                 !.sum = xor8(f.sum, byte)]
                  ELSE [f EXCEPT !.at = 0,
                                 !.done = IF byte = f.sum THEN "accepted"
                                                          ELSE "rejected"]

NoParse ==
    [called |-> FALSE, state |-> 0, byte |-> 0, available |-> FALSE,
     ready |-> FALSE, bufferWritten |-> FALSE, sizeBefore |-> 0,
     indexBefore |-> 0, values |-> <<>>, conversion |-> "saturate"]

ParserInit ==
    /\ parser_state_ = 0
    /\ type_ = 0
    /\ crc_ = 0
    /\ size_ = 0
    /\ index_ = 0
    /\ buffer_size_ = 0
    /\ buffer_checksum_ = 0
    /\ buffer = [i \in 0..BufferLast |-> 0]
    /\ buffer_size = 0
    /\ buffer_index = 0
    /\ motor_index = 0
    /\ motor_percent = 0
    /\ serialLine \in SerialLines
    /\ frame = NoFrameSeen
    /\ parse = NoParse
    /\ parseCalls = 0

\* void parser_parse(buffer, buffer_size, buffer_index, state_phi,
\* state_theta, state_psi, motor_index, motor_percent), on the byte the serial
\* stream holds.
ParserParse ==
    \E byte \in serialLine, available \in BOOLEAN :
        LET size == IF parser_state_ = 3 THEN byte ELSE size_
            index == IF parser_state_ = 5 THEN (index_ + 1) % 256 ELSE 0
            in_payload == type_ >= 200 /\ parser_state_ = 5 /\ index <= size
            type == IF parser_state_ = 4 THEN byte ELSE type_
            crc == CASE parser_state_ = 3 -> byte
                     [] parser_state_ = 4 -> xor8(crc_, byte)
                     [] in_payload -> xor8(crc_, byte)
                     [] parser_state_ = 5 -> crc_
                     [] OTHER -> 0
            state == CASE parser_state_ = 0 /\ byte = 36 -> 1
                       [] parser_state_ = 1 /\ byte = 77 -> 2
                       [] parser_state_ = 2 /\ byte \in {60, 62} -> 3
                       [] parser_state_ = 3 -> 4
                       [] parser_state_ = 4 -> 5
                       [] parser_state_ = 5 /\ in_payload -> 5
                       [] parser_state_ = 5 -> 0
                       [] OTHER -> parser_state_
            pindex == IF in_payload THEN index - 1 ELSE 0
            stored == IF in_payload THEN [buffer EXCEPT ![pindex] = byte]
                                    ELSE buffer
            ready == messageReady(available, state, crc, byte)
            out == [buffer |-> stored, size |-> buffer_size_,
                    checksum |-> buffer_checksum_]
        IN  /\ parseCalls < MaxCalls
            /\ pindex <= BufferLast
            /\ parseCalls' = parseCalls + 1
            /\ size_' = size
            /\ index_' = index
            /\ type_' = type
            /\ crc_' = crc
            /\ parser_state_' = state
            /\ buffer_index' = IF ready THEN 0 ELSE buffer_index
            /\ frame' = frameStep(frame, byte)
            /\ UNCHANGED serialLine
            /\ \E values \in (IF ~ready THEN {<<>>}
                              ELSE IF type = 121 THEN ReceiverInputs
                              ELSE IF type = 122 THEN AngleInputs
                              ELSE {<<>>}) :
              \E conversion \in (IF \E i \in 1..Len(values) :
                                           values[i] < -20000
                                     THEN Conversions ELSE {"saturate"}) :
                  LET reply ==
                         IF type \in {121, 122}
                            THEN completeSend(
                                    serializeFloats(
                                       prepareToSerializeFloats(
                                          out, ready, type,
                                          IF type = 121 THEN 6 ELSE 3),
                                       ready, values, conversion),
                                    ready)
                            ELSE out
                  IN  /\ buffer' = reply.buffer
                      /\ buffer_size_' = reply.size
                      /\ buffer_checksum_' = reply.checksum
                      /\ buffer_size' = reply.size
                      /\ motor_index' = IF type = 215 THEN stored[0] ELSE 0
                      /\ motor_percent' = IF type = 215 THEN stored[1] ELSE 0
                      /\ parse' = [called |-> TRUE,
                                   state |-> parser_state_,
                                   byte |-> byte,
                                   available |-> available,
                                   ready |-> ready,
                                   bufferWritten |-> reply.buffer # stored,
                                   sizeBefore |-> buffer_size_,
                                   indexBefore |-> buffer_index,
                                   values |-> values,
                                   conversion |-> conversion]

\* uint8_t parser_read(buffer, buffer_size, buffer_index): the caller takes
\* one byte of the reply while some are left.
ParserRead ==
    /\ buffer_size > 0
    /\ buffer_index < MaxReads
    /\ buffer_size' = buffer_size - 1
    /\ buffer_index' = buffer_index + 1
    /\ parse' = NoParse
    /\ UNCHANGED <<parser_state_, type_, crc_, size_, index_, buffer_size_,
                   buffer_checksum_, buffer, motor_index, motor_percent,
                   serialLine, frame, parseCalls>>

ParserNext ==
    \/ ParserParse /\ UNCHANGED notParserVars
    \/ ParserRead /\ UNCHANGED notParserVars

-----------------------------------------------------------------------------
(* parser.hpp: serializeFloat on its own                                   *)

\* Values handed to serializeFloat, in units of 0.0001: around 0, around -2
\* (where 1000 * (value + 2) changes sign), -2.5, 200 and 65535.
SerializedValues ==
    (0..24) \cup (-20024..-19976) \cup {-25000, 2000000, 655350000}

EmptyOut == [buffer |-> [i \in 0..3 |-> 0], size |-> 0, checksum |-> 0]

SerializeInit ==
    /\ serValue \in SerializedValues
    /\ serConversion = "saturate"
    /\ serOut = EmptyOut

\* serializeFloat(buffer, buffer_size, buffer_checksum, true, value) on an
\* empty buffer.
SerializeFloat ==
    \E conversion \in Conversions :
        /\ serOut = EmptyOut
        /\ serConversion' = conversion
        /\ serOut' = serializeFloat(serOut, TRUE, serValue, conversion)
        /\ UNCHANGED serValue

SerializeNext == SerializeFloat /\ UNCHANGED notSerializeVars

-----------------------------------------------------------------------------
(* receiver.h: training of the RC smoothing filter on the frame interval   *)

SMOOTHING_CUTOFF_MIN_HZ == 15
SMOOTHING_FEEDFORWARD_INITIAL_HZ == 100
SMOOTHING_FILTER_RETRAINING_DELAY_MS == 2000
SMOOTHING_FILTER_RETRAINING_SAMPLES == 20
SMOOTHING_FILTER_STARTUP_DELAY_MS == 5000
SMOOTHING_FILTER_TRAINING_DELAY_MS == 1000
SMOOTHING_FILTER_TRAINING_SAMPLES == 50
SMOOTHING_RATE_CHANGE_PERCENT == 20
SMOOTHING_RATE_MAX_US == 65500
SMOOTHING_RATE_MIN_US == 950
UINT16_MAX == 65535

\* A stretch of the radio link: frames consecutive frames, each interval
\* microseconds after the one before, with or without a signal.
Seg(interval, frames, signal) ==
    [interval |-> interval, frames |-> frames, signal |-> signal]

\* What the radio link delivers in one run.  Intervals of 50000 us are a
\* 20 Hz link; 45000 and 55000 differ from it by 10 %, 65000 by 30 %; 500,
\* 100000 and 1100000 (a pause) are outside [950, 65500].
LinkPlans ==
    {<<Seg(50000, 160, TRUE)>>,
     <<Seg(50000, 113, TRUE), Seg(45000, 45, TRUE)>>,
     <<Seg(50000, 113, TRUE), Seg(55000, 45, TRUE)>>,
     <<Seg(50000, 113, TRUE), Seg(65000, 30, TRUE)>>,
     <<Seg(50000, 113, TRUE), Seg(65000, 10, TRUE), Seg(50000, 1, TRUE),
       Seg(65000, 25, TRUE)>>,
     <<Seg(50000, 113, TRUE), Seg(38000, 12, TRUE), Seg(100000, 1, TRUE),
       Seg(38000, 25, TRUE)>>,
     <<Seg(50000, 80, TRUE), Seg(65000, 70, TRUE)>>,
     <<Seg(50000, 30, TRUE), Seg(40000, 1, TRUE), Seg(60000, 1, TRUE),
       Seg(52000, 10, TRUE), Seg(50000, 50, TRUE)>>,
     <<Seg(50000, 40, TRUE), Seg(500, 1, TRUE), Seg(50000, 80, TRUE)>>,
     <<Seg(50000, 60, TRUE), Seg(100000, 1, TRUE), Seg(50000, 60, TRUE)>>,
     <<Seg(50000, 40, TRUE), Seg(50000, 3, FALSE), Seg(50000, 80, TRUE)>>,
     <<Seg(950, 2, TRUE), Seg(1100000, 1, TRUE), Seg(950, 55, TRUE)>>,
     <<Seg(65500, 100, TRUE)>>}

\* Values of micros() when the receiver starts delivering: one second before
\* the end of the startup delay, after it, and 2.3 s before the 32-bit
\* counter wraps.
RxClockStarts == {4000000, 5900000, -2300000}

\* lrintf(n / d) for n >= 0, d > 0: to nearest, ties to even.
lrintRatio(n, d) ==
    LET q == n \div d
        r == n % d
    IN  IF 2 * r > d THEN q + 1
        ELSE IF 2 * r < d THEN q
        ELSE IF q % 2 = 0 THEN q ELSE q + 1

\* fmaxf that returns its second argument.
fmaxf_second(a, b) == b

fmaxf(a, b) == IF a >= b THEN a ELSE b

fminf(a, b) == IF a <= b THEN a ELSE b

\* calcAutoSmoothingCutoff: (1 / (avg * 1e-6)) * 1.5 / (1 + factor / 10),
\* that is 15000000 / (avg * (10 + factor)), through lrintf.
calcAutoSmoothingCutoff(avgRxFrameTimeUs, autoSmoothnessFactor) ==
    IF avgRxFrameTimeUs > 0
       THEN lrintRatio(15000000, avgRxFrameTimeUs * (10 + autoSmoothnessFactor))
       ELSE 0

rcSmoothingResetAccumulation(f) ==
    [f EXCEPT !.trainingSum = 0, !.trainingCount = 0,
              !.trainingMin = UINT16_MAX, !.trainingMax = 0]

\* setSmoothingFilterCutoffs, as far as the cutoff frequencies go.
setSmoothingFilterCutoffs(f) ==
    [f EXCEPT
        !.setpointCutoffFrequency =
            IF f.setpointCutoffSetting = 0
               THEN fmaxf(SMOOTHING_CUTOFF_MIN_HZ,
                          calcAutoSmoothingCutoff(f.averageFrameTimeUs,
                              f.autoSmoothnessFactorSetpoint))
               ELSE @,
        !.throttleCutoffFrequency =
            IF f.throttleCutoffSetting = 0
               THEN fmaxf(SMOOTHING_CUTOFF_MIN_HZ,
                          calcAutoSmoothingCutoff(f.averageFrameTimeUs,
                              f.autoSmoothnessFactorThrottle))
               ELSE @,
        !.feedforwardCutoffFrequency =
            IF f.ffCutoffSetting = 0
               THEN fmaxf(SMOOTHING_CUTOFF_MIN_HZ,
                          calcAutoSmoothingCutoff(f.averageFrameTimeUs,
                              f.autoSmoothnessFactorSetpoint))
               ELSE @]

\* rcSmoothingAccumulateSample that keeps the high and the low sample.
rcSmoothingAccumulateSample_keepExtremes(f, frameTimeUs) ==
    LET sum == f.trainingSum + frameTimeUs
        count == f.trainingCount + 1
        sampleLimit == IF f.filterInitialized
                          THEN SMOOTHING_FILTER_RETRAINING_SAMPLES
                          ELSE SMOOTHING_FILTER_TRAINING_SAMPLES
    IN  IF count >= sampleLimit
           THEN [filter |-> rcSmoothingResetAccumulation(
                                [f EXCEPT !.averageFrameTimeUs =
                                              lrintRatio(sum, count - 2)]),
                 done |-> TRUE]
           ELSE [filter |-> [f EXCEPT !.trainingSum = sum,
                                      !.trainingCount = count],
                 done |-> FALSE]

\* rcSmoothingAccumulateSample: the filter afterwards and the value returned.
rcSmoothingAccumulateSample(f, frameTimeUs) ==
    LET sum == f.trainingSum + frameTimeUs
        count == f.trainingCount + 1
        max == fmaxf(f.trainingMax, frameTimeUs)
        min == fminf(f.trainingMin, frameTimeUs)
        sampleLimit == IF f.filterInitialized
                          THEN SMOOTHING_FILTER_RETRAINING_SAMPLES
                          ELSE SMOOTHING_FILTER_TRAINING_SAMPLES
    IN  IF count >= sampleLimit
           THEN [filter |-> rcSmoothingResetAccumulation(
                                [f EXCEPT !.averageFrameTimeUs =
                                     lrintRatio(sum - min - max, count - 2)]),
                 done |-> TRUE]
           ELSE [filter |-> [f EXCEPT !.trainingSum = sum,
                                      !.trainingCount = count,
                                      !.trainingMax = max,
                                      !.trainingMin = min],
                 done |-> FALSE]

rcSmoothingAutoCalculate(f) ==
    \/ f.setpointCutoffSetting = 0
    \/ f.ffCutoffSetting = 0
    \/ f.throttleCutoffSetting = 0

\* The first-call initialization of processSmoothingFilter: the filter and
\* m_calculatedCutoffs afterwards.
firstCall(f) ==
    LET f1 == [f EXCEPT !.filterInitialized = FALSE,
                        !.averageFrameTimeUs = 0,
                        !.autoSmoothnessFactorSetpoint = 30,
                        !.autoSmoothnessFactorThrottle = 30,
                        !.setpointCutoffSetting = 0,
                        !.throttleCutoffSetting = 0,
                        !.ffCutoffSetting = 0]
        f2 == rcSmoothingResetAccumulation(f1)
        f3 == [f2 EXCEPT
                  !.setpointCutoffFrequency = f2.setpointCutoffSetting,
                  !.throttleCutoffFrequency = f2.throttleCutoffSetting,
                  !.feedforwardCutoffFrequency =
                      IF f2.ffCutoffSetting = 0
                         THEN lrintRatio(
                                  SMOOTHING_FEEDFORWARD_INITIAL_HZ * 15,
                                  10 + f2.autoSmoothnessFactorSetpoint)
                         ELSE f2.ffCutoffSetting]
        calculated == rcSmoothingAutoCalculate(f3)
    IN  [filter |-> IF calculated THEN f3
                    ELSE [setSmoothingFilterCutoffs(f3)
                             EXCEPT !.filterInitialized = TRUE],
         calculatedCutoffs |-> calculated]

\* The guard delay that is the training delay in both phases.
guardDelayMs_training(filterInitialized) ==
    SMOOTHING_FILTER_TRAINING_DELAY_MS

guardDelayMs(filterInitialized) ==
    IF filterInitialized THEN SMOOTHING_FILTER_RETRAINING_DELAY_MS
    ELSE SMOOTHING_FILTER_TRAINING_DELAY_MS

\* percentChange < SMOOTHING_RATE_CHANGE_PERCENT, with percentChange =
\* fabs((m_refreshPeriod - averageFrameTimeUs) / (float)averageFrameTimeUs)
\* * 100.  Both operands of the subtraction are uint32_t: when the period is
\* the smaller one the difference is above 2^31 (negative in the 32-bit
\* representation) and the percentage far above the limit.
rateChangeBelowLimit(refreshPeriod, averageFrameTimeUs) ==
    LET difference == sub32(refreshPeriod, averageFrameTimeUs)
    IN  /\ difference >= 0
        /\ difference * 100 < SMOOTHING_RATE_CHANGE_PERCENT * averageFrameTimeUs

\* The block of processSmoothingFilter under if (m_gotNewData) and
\* if (m_calculatedCutoffs): the filter and m_validFrameTimeMs afterwards,
\* and what was done.
trainOnFrame(f, validFrameTimeMs, currentTimeMs, signalReceived, isRateValid, refreshPeriod) ==
    LET untouched == [filter |-> f, validFrameTimeMs |-> validFrameTimeMs,
                      decided |-> FALSE, accumulated |-> FALSE,
                      reset |-> FALSE, trained |-> FALSE]
    IN  IF ~(currentTimeMs > SMOOTHING_FILTER_STARTUP_DELAY_MS)
           THEN untouched
        ELSE IF ~(signalReceived /\ isRateValid)
           THEN [untouched EXCEPT !.filter = rcSmoothingResetAccumulation(f),
                                  !.reset = TRUE]
        ELSE
           LET valid == IF validFrameTimeMs = 0
                           THEN currentTimeMs
                                    + guardDelayMs(f.filterInitialized)
                           ELSE validFrameTimeMs
           IN  IF ~(currentTimeMs > valid)
                  THEN [untouched EXCEPT !.validFrameTimeMs = valid]
               ELSE IF /\ f.filterInitialized
                       /\ rateChangeBelowLimit(refreshPeriod,
                                               f.averageFrameTimeUs)
                  THEN [untouched EXCEPT
                           !.validFrameTimeMs = valid,
                           !.filter = rcSmoothingResetAccumulation(f),
                           !.decided = TRUE, !.reset = TRUE]
               ELSE
                  LET acc == rcSmoothingAccumulateSample(f, refreshPeriod)
                  IN  IF acc.done
                         THEN [filter |->
                                  [setSmoothingFilterCutoffs(acc.filter)
                                      EXCEPT !.filterInitialized = TRUE],
                               validFrameTimeMs |-> 0,
                               decided |-> TRUE, accumulated |-> TRUE,
                               reset |-> FALSE, trained |-> TRUE]
                         ELSE [filter |-> acc.filter,
                               validFrameTimeMs |-> valid,
                               decided |-> TRUE, accumulated |-> TRUE,
                               reset |-> FALSE, trained |-> FALSE]

\* constrain_i32_u32(refreshPeriodUs, low, high)
constrain_i32_u32(amt, low, high) ==
    IF amt < low THEN low ELSE IF amt > high THEN high ELSE amt

NoSmooth ==
    [newData |-> FALSE, timeMs |-> 0, interval |-> 0, signal |-> FALSE,
     initializedBefore |-> FALSE, averageBefore |-> 0, countBefore |-> 0,
     decided |-> FALSE, accumulated |-> FALSE, reset |-> FALSE,
     trained |-> FALSE, window |-> <<>>, elapsedUs |-> -1, streak |-> 0]

\* Elapsed times are followed up to ten seconds.
ElapsedCapUs == 10000000

SmoothingInit ==
    /\ rxClockUs \in RxClockStarts
    /\ linkPlan \in LinkPlans
    /\ m_smoothingFilter =
           [filterInitialized |-> FALSE, averageFrameTimeUs |-> 0,
            autoSmoothnessFactorSetpoint |-> 0,
            autoSmoothnessFactorThrottle |-> 0,
            setpointCutoffSetting |-> 0, throttleCutoffSetting |-> 0,
            ffCutoffSetting |-> 0,
            setpointCutoffFrequency |-> 0, throttleCutoffFrequency |-> 0,
            feedforwardCutoffFrequency |-> 0,
            trainingSum |-> 0, trainingCount |-> 0,
            trainingMax |-> 0, trainingMin |-> 0]
    /\ m_initializedFilter = FALSE
    /\ m_calculatedCutoffs = FALSE
    /\ m_isRateValid = FALSE
    /\ m_refreshPeriod = 0
    /\ m_lastRxTimeUs = 0
    /\ m_validFrameTimeMs = 0
    /\ trainingSamples = <<>>
    /\ sinceTrainedUs = -1
    /\ streak = 0
    /\ smooth = NoSmooth

\* getDemands on a tick for which poll delivered no new data:
\* processSmoothingFilter does its first-call initialization and no more.
SmoothingIdle ==
    LET first == firstCall(m_smoothingFilter)
    IN  /\ m_smoothingFilter' =
               IF m_initializedFilter THEN m_smoothingFilter ELSE first.filter
        /\ m_calculatedCutoffs' =
               IF m_initializedFilter THEN m_calculatedCutoffs
               ELSE first.calculatedCutoffs
        /\ m_initializedFilter' = TRUE
        /\ smooth' = NoSmooth
        /\ UNCHANGED <<rxClockUs, linkPlan, m_isRateValid, m_refreshPeriod,
                       m_lastRxTimeUs, m_validFrameTimeMs, trainingSamples,
                       sinceTrainedUs, streak>>

\* One frame of the link: processData measures the interval on the clock
\* (the device supplies no frame time), poll reaches STATE_UPDATE and the
\* next getDemands runs processSmoothingFilter with m_gotNewData set.
SmoothingFrame ==
    /\ linkPlan # <<>>
    /\ LET seg == Head(linkPlan)
           currentTimeUs == add32(rxClockUs, seg.interval)
           refreshPeriodUs == cmp32(currentTimeUs, m_lastRxTimeUs)
           isRateValid == /\ refreshPeriodUs >= SMOOTHING_RATE_MIN_US
                          /\ refreshPeriodUs <= SMOOTHING_RATE_MAX_US
           refreshPeriod == constrain_i32_u32(refreshPeriodUs,
                                SMOOTHING_RATE_MIN_US, SMOOTHING_RATE_MAX_US)
           first == firstCall(m_smoothingFilter)
           f == IF m_initializedFilter THEN m_smoothingFilter
                ELSE first.filter
           calculated == IF m_initializedFilter THEN m_calculatedCutoffs
                         ELSE first.calculatedCutoffs
           currentTimeMs == usToMs(currentTimeUs)
           t == IF calculated
                   THEN trainOnFrame(f, m_validFrameTimeMs, currentTimeMs,
                                     seg.signal, isRateValid, refreshPeriod)
                   ELSE [filter |-> f,
                         validFrameTimeMs |-> m_validFrameTimeMs,
                         decided |-> FALSE, accumulated |-> FALSE,
                         reset |-> FALSE, trained |-> FALSE]
           elapsed == IF sinceTrainedUs < 0 THEN -1
                      ELSE fminf(ElapsedCapUs, sinceTrainedUs + seg.interval)
           differs == /\ f.filterInitialized
                      /\ 100 * (IF refreshPeriodUs >= f.averageFrameTimeUs
                                   THEN refreshPeriodUs - f.averageFrameTimeUs
                                   ELSE f.averageFrameTimeUs - refreshPeriodUs)
                             >= SMOOTHING_RATE_CHANGE_PERCENT
                                    * f.averageFrameTimeUs
           run == IF differs /\ isRateValid THEN streak + 1 ELSE 0
           window == IF t.accumulated
                        THEN Append(trainingSamples, refreshPeriod)
                     ELSE IF t.reset THEN <<>> ELSE trainingSamples
       IN  /\ rxClockUs' = currentTimeUs
           /\ linkPlan' = IF seg.frames > 1
                             THEN <<[seg EXCEPT !.frames = @ - 1]>>
                                      \o Tail(linkPlan)
                             ELSE Tail(linkPlan)
           /\ m_lastRxTimeUs' = currentTimeUs
           /\ m_isRateValid' = isRateValid
           /\ m_refreshPeriod' = refreshPeriod
           /\ m_initializedFilter' = TRUE
           /\ m_calculatedCutoffs' = calculated
           /\ m_smoothingFilter' = t.filter
           /\ m_validFrameTimeMs' = t.validFrameTimeMs
           /\ trainingSamples' = IF t.trained THEN <<>> ELSE window
           /\ sinceTrainedUs' = IF t.trained THEN 0 ELSE elapsed
           /\ streak' = IF t.trained THEN 0 ELSE run
           /\ smooth' = [newData |-> TRUE, timeMs |-> currentTimeMs,
                         interval |-> refreshPeriodUs, signal |-> seg.signal,
                         initializedBefore |-> f.filterInitialized,
                         averageBefore |-> f.averageFrameTimeUs,
                         countBefore |-> f.trainingCount,
                         decided |-> t.decided,
                         accumulated |-> t.accumulated,
                         reset |-> t.reset, trained |-> t.trained,
                         window |-> IF t.trained THEN window ELSE <<>>,
                         elapsedUs |-> elapsed, streak |-> run]

SmoothingNext ==
    \/ SmoothingIdle /\ UNCHANGED notSmoothingVars
    \/ SmoothingFrame /\ UNCHANGED notSmoothingVars

-----------------------------------------------------------------------------
(* receiver.h: the fallback value of failsafe mode SET                     *)

FailValueInit ==
    /\ failStep \in 0..255
    /\ failValue = -1

\* rxfail_step_to_channel_value(channelFailsafeConfig->step), the return of
\* getFailValue in case FAILSAFE_MODE_SET.
FailValueSet ==
    /\ failValue = -1
    /\ failValue' = rxfail_step_to_channel_value(failStep)
    /\ UNCHANGED failStep

FailValueNext == FailValueSet /\ UNCHANGED notFailValueVars

-----------------------------------------------------------------------------
(* receiver.h: Receiver::poll, Receiver::check and Receiver::getDemands    *)

RATE_LIMIT == 1998
RC_RATE == 7
RATE == 67
COMMAND_DIVIDER == 500
YAW_COMMAND_DIVIDER == 500
THR_MID8 == 50

\* PWM_MIN and PWM_MAX, the ends of the throttle range.
PWM_MIN == 1000

PWM_MAX == 2000

\* Number of getDemands calls followed.
MaxDemandCalls == 5

Sticks == {THROTTLE, ROLL, PITCH, YAW}

Axes == {ROLL, PITCH, YAW}

\* The stick positions a frame can carry, after applyChannelRangeConfiguraton
\* has brought each into [PWM_PULSE_MIN, PWM_PULSE_MAX].
RcFrames ==
    {[c \in Sticks |-> IF c = THROTTLE THEN 1000 ELSE 1500],
     [c \in Sticks |-> CASE c = THROTTLE -> 2250 [] c = ROLL -> 2250
                         [] c = PITCH -> 750 [] OTHER -> 1250],
     [c \in Sticks |-> CASE c = THROTTLE -> 750 [] c = ROLL -> 1000
                         [] c = PITCH -> 2000 [] OTHER -> 2250]}

\* constrain_f that hands its argument back.
constrain_f_none(amt, low, high) == amt

\* constrain_f(amt, low, high), also used for constrain_f_i32
constrain_f(amt, low, high) ==
    IF amt < low THEN low ELSE IF amt > high THEN high ELSE amt

\* Integer division that truncates toward zero, as C does.
cdiv(a, b) == IF a >= 0 THEN a \div b ELSE -((-a) \div b)

\* static float updateCommand(float raw, float sgn)
updateCommand(raw, sgn) ==
    LET distance == IF raw >= 1500 THEN raw - 1500 ELSE 1500 - raw
        tmp == fminf(distance, 500)
        cmd == tmp * sgn
    IN  IF raw < 1500 THEN -cmd ELSE cmd

\* m_lookupThrottleRc[i] as lookupThrottle fills it in (THR_EXPO8 = 0).
lookupThrottleRc(i) ==
    LET tmp2 == 10 * i - THR_MID8
        expo == 10 * THR_MID8 + cdiv(tmp2 * 100, 10)
    IN  PWM_MIN + cdiv((PWM_MAX - PWM_MIN) * expo, 1000)

\* int16_t lookupThrottle(int32_t tmp)
lookupThrottle(tmp) ==
    LET tmp3 == cdiv(tmp, 100)
    IN  lookupThrottleRc(tmp3)
            + cdiv((tmp - tmp3 * 100)
                       * (lookupThrottleRc(tmp3 + 1) - lookupThrottleRc(tmp3)),
                   100)

\* m_commands.throttle as updateCommands computes it from raw[THROTTLE].
commandThrottle(rawThrottle) ==
    LET tmp == constrain_f(rawThrottle, 1050, PWM_MAX)
        tmp2 == cdiv((tmp - 1050) * PWM_MIN, PWM_MAX - 1050)
    IN  lookupThrottle(tmp2)

\* applyRates(commandf, commandfAbs) for commandf = command / divider, in
\* whole deg/s: commandf * RC_RATE * 10 + max(0, RATE * 10 - RC_RATE * 10)
\* * |commandf| * commandf (RC_EXPO = 0).
applyRates(command, divider) ==
    LET centerSensitivity == RC_RATE * 10
        stickMovement == fmaxf(0, RATE * 10 - centerSensitivity)
        commandAbs == IF command >= 0 THEN command ELSE -command
    IN  cdiv(command * centerSensitivity * divider
                 + stickMovement * commandAbs * command,
             divider * divider)

\* static float getRawSetpoint(float command, float divider)
getRawSetpoint(command, divider) ==
    constrain_f(applyRates(command, divider), -RATE_LIMIT, RATE_LIMIT)

ZeroFilter == [state |-> 0, state1 |-> 0, state2 |-> 0]

\* pt3FilterApply with gain k = 1/2: three first-order stages in cascade,
\* the new filter state (its output is the field state).
pt3FilterApply(filter, input) ==
    LET s1 == filter.state1 + ((input - filter.state1) \div 2)
        s2 == filter.state2 + ((s1 - filter.state2) \div 2)
        s  == filter.state + ((s2 - filter.state) \div 2)
    IN  [state |-> s, state1 |-> s1, state2 |-> s2]

\* smoothingFilterApply: the filter afterwards; its output is the field state
\* when the filter is initialized and the input when it is not.
smoothingFilterApply(initialized, filter, dataToSmooth) ==
    IF initialized THEN pt3FilterApply(filter, dataToSmooth) ELSE filter

NoRcCall ==
    [call |-> "none", stateBefore |-> "CHECK", newDataBefore |-> FALSE,
     gotNewData |-> FALSE, pidItermResetReady |-> FALSE, processed |-> FALSE,
     readDevice |-> FALSE, returned |-> FALSE, consumed |-> FALSE,
     completed |-> FALSE]

PollInit ==
    /\ m_state = "CHECK"
    /\ m_gotNewData = FALSE
    /\ m_auxiliaryProcessingRequired = FALSE
    /\ m_dataRequired = FALSE
    /\ m_rawSticks = [c \in Sticks |-> 0]
    /\ m_command = [c \in Axes |-> 0]
    /\ m_commands = [throttle |-> 0]
    /\ m_dataToSmooth = [c \in Sticks |-> 0]
    /\ filtersInitialized = FALSE
    /\ pt3 = [c \in Sticks |-> ZeroFilter]
    /\ demands = [c \in Sticks |-> 0]
    /\ framesPending = 0
    /\ demandCalls = 0
    /\ rcCall = NoRcCall

\* bool check(currentTimeUs).  The device's frame status and the two clock
\* tests are inputs: complete, failsafe, dropped, processing are the bits of
\* frameStatus, updateDue is cmpTimeUs(currentTimeUs, m_nextUpdateAtUs) > 0.
PollCheck ==
    IF m_state # "CHECK"
       THEN /\ rcCall' = [NoRcCall EXCEPT !.call = "check",
                                          !.stateBefore = m_state,
                                          !.newDataBefore = m_gotNewData,
                                          !.returned = TRUE]
            /\ UNCHANGED <<m_state, m_gotNewData,
                           m_auxiliaryProcessingRequired, m_dataRequired,
                           m_rawSticks, m_command, m_commands, m_dataToSmooth,
                           filtersInitialized, pt3, demands, framesPending,
                           demandCalls>>
       ELSE \E complete, bad, processing, updateDue \in BOOLEAN :
              LET signalReceived == complete /\ ~bad
                  aux == m_auxiliaryProcessingRequired \/ processing
                  data == m_dataRequired \/ signalReceived \/ updateDue
              IN  /\ m_auxiliaryProcessingRequired' = aux
                  /\ m_dataRequired' = data
                  /\ rcCall' = [NoRcCall EXCEPT
                                   !.call = "check",
                                   !.stateBefore = m_state,
                                   !.newDataBefore = m_gotNewData,
                                   !.readDevice = TRUE,
                                   !.returned = (data \/ aux)]
                  /\ UNCHANGED <<m_state, m_gotNewData, m_rawSticks,
                                 m_command, m_commands, m_dataToSmooth,
                                 filtersInitialized, pt3, demands,
                                 framesPending, demandCalls>>

\* The switch of poll that goes from STATE_PROCESS to STATE_UPDATE.
pollNextState_skipsModes(state, dataRequired) ==
    CASE state = "CHECK" -> "PROCESS"
      [] state = "PROCESS" -> IF dataRequired THEN "UPDATE" ELSE "CHECK"
      [] state = "MODES" -> "UPDATE"
      [] OTHER -> "CHECK"

\* The switch (m_state) of poll: the state the call leaves.
pollNextState(state, dataRequired) ==
    CASE state = "CHECK" -> "PROCESS"
      [] state = "PROCESS" -> IF dataRequired THEN "MODES" ELSE "CHECK"
      [] state = "MODES" -> "UPDATE"
      [] OTHER -> "CHECK"

\* void poll(...): one call, with calculateChannelsAndUpdateFailsafe in
\* STATE_PROCESS (the frame read is an input) and updateCommands in
\* STATE_UPDATE.
Poll ==
    \E rcFrame \in RcFrames :
        LET processes == m_state = "PROCESS" /\ m_dataRequired
            updates == m_state = "UPDATE"
        IN  /\ (m_state # "PROCESS" \/ ~m_dataRequired)
                   => rcFrame = CHOOSE f \in RcFrames : TRUE
            /\ m_state' = pollNextState(m_state, m_dataRequired)
            /\ m_gotNewData' = updates
            /\ m_auxiliaryProcessingRequired' =
                   IF m_state = "PROCESS" THEN FALSE
                   ELSE m_auxiliaryProcessingRequired
            /\ m_dataRequired' =
                   IF m_state = "PROCESS" THEN FALSE ELSE m_dataRequired
            /\ m_rawSticks' = IF processes THEN rcFrame ELSE m_rawSticks
            /\ m_command' =
                   IF updates
                      THEN [axis \in Axes |->
                               updateCommand(m_rawSticks[axis],
                                             IF axis = YAW THEN -1 ELSE 1)]
                      ELSE m_command
            /\ m_commands' =
                   IF updates
                      THEN [throttle |-> commandThrottle(m_rawSticks[THROTTLE])]
                      ELSE m_commands
            /\ framesPending' = IF updates THEN fminf(framesPending + 1, 2)
                                ELSE framesPending
            /\ rcCall' = [NoRcCall EXCEPT
                             !.call = "poll",
                             !.stateBefore = m_state,
                             !.newDataBefore = m_gotNewData,
                             !.gotNewData = updates,
                             !.pidItermResetReady = processes,
                             !.processed = processes,
                             !.completed = updates]
            /\ UNCHANGED <<m_dataToSmooth, filtersInitialized, pt3, demands,
                           demandCalls>>

\* void getDemands(currentTimeUs, anglePidData, demands), with the part of
\* processSmoothingFilter that applies the filters.  trains says that this
\* call completes a training of the smoothing filter, which initializes the
\* filters the first time.
RcGetDemands ==
    /\ demandCalls < MaxDemandCalls
    /\ \E trains \in BOOLEAN :
        LET rawSetpoint ==
                [axis \in Axes |->
                    IF m_gotNewData
                       THEN getRawSetpoint(m_command[axis],
                                IF axis = YAW THEN YAW_COMMAND_DIVIDER
                                ELSE COMMAND_DIVIDER)
                       ELSE 0]
            completes == trains /\ m_gotNewData
            initialized == filtersInitialized \/ completes
            filters == IF completes /\ ~filtersInitialized
                          THEN [c \in Sticks |-> ZeroFilter]
                          ELSE pt3
            toSmooth == IF m_gotNewData
                           THEN [c \in Sticks |->
                                    IF c = THROTTLE THEN m_commands.throttle
                                    ELSE rawSetpoint[c]]
                           ELSE m_dataToSmooth
            applied == [c \in Sticks |->
                           smoothingFilterApply(initialized, filters[c],
                                                toSmooth[c])]
            smoothed == [c \in Sticks |->
                            IF initialized THEN applied[c].state
                            ELSE toSmooth[c]]
        IN  /\ (~m_gotNewData) => ~trains
            /\ m_dataToSmooth' = toSmooth
            /\ filtersInitialized' = initialized
            /\ pt3' = applied
            /\ m_commands' = [throttle |-> smoothed[THROTTLE]]
            /\ demands' =
                   [c \in Sticks |->
                       IF c = THROTTLE
                          THEN constrain_f(
                                   cdiv((smoothed[THROTTLE] - PWM_MIN) * 1000,
                                        PWM_MAX - PWM_MIN),
                                   0, 1000)
                          ELSE smoothed[c]]
            /\ m_gotNewData' = FALSE
            /\ framesPending' = IF m_gotNewData THEN framesPending - 1
                                ELSE framesPending
            /\ demandCalls' = demandCalls + 1
            /\ rcCall' = [NoRcCall EXCEPT !.call = "getDemands",
                                          !.stateBefore = m_state,
                                          !.newDataBefore = m_gotNewData,
                                          !.consumed = m_gotNewData]
            /\ UNCHANGED <<m_state, m_auxiliaryProcessingRequired,
                           m_dataRequired, m_rawSticks, m_command>>

PollNext ==
    \/ PollCheck /\ UNCHANGED notPollVars
    \/ Poll /\ UNCHANGED notPollVars
    \/ RcGetDemands /\ UNCHANGED notPollVars

-----------------------------------------------------------------------------
(* spi.c: spiWaitClaim, spiWait, spiReadWriteBuf, spiSequence,             *)
(* spiSequenceStart and spiIrqHandler on one bus                            *)

\* bus->curSegment is a pointer into a segment list, or one of two marks.
BUS_SPI_FREE == [list |-> "none", idx |-> 0]

BUS_SPI_LOCKED == [list |-> "none", idx |-> 4]

\* The blocking caller and two devices whose drivers call spiSequence from
\* interrupt context.
MainDevice == "main"

IsrDevices == {"gyro", "baro"}

SpiDevices == {MainDevice} \cup IsrDevices

\* Lengths of the data segment of spiReadWriteBuf: one sent by polling, one
\* by DMA.
MainLens == {4, 16}

MaxMainCalls == 1

MaxIsrRequests == 1

MaxBusy == 1

\* The terminating segment {NULL, NULL, 0, true, NULL} of every list.
endSegment == [len |-> 0, callback |-> FALSE]

\* busSegment_t lists: the two segments of spiReadWriteBuf, a register read
\* of two segments whose last has a callback, and a short single segment
\* with a callback.
segmentsOf(dev, len) ==
    CASE dev = MainDevice -> <<[len |-> len, callback |-> FALSE], endSegment>>
      [] dev = "gyro" -> <<[len |-> 1, callback |-> FALSE],
                           [len |-> 14, callback |-> TRUE], endSegment>>
      [] OTHER -> <<[len |-> 3, callback |-> TRUE], endSegment>>

\* curSegment points at a segment of a list that is not its terminator.
isDataSegment(cur, len) ==
    /\ cur.list \in SpiDevices
    /\ cur.idx >= 1
    /\ cur.idx < Len(segmentsOf(cur.list, len))

isSegment(cur, len) ==
    /\ cur.list \in SpiDevices
    /\ cur.idx >= 1
    /\ cur.idx <= Len(segmentsOf(cur.list, len))

RECURSIVE xferLenOf(_)
xferLenOf(segments) ==
    IF Head(segments).len = 0 THEN 0
    ELSE Head(segments).len + xferLenOf(Tail(segments))

\* bus->useDMA && dmaSafe && ((segmentCount > 1) || (xferLen > 8)), on a bus
\* with DMA and buffers outside CCM.
useDMA(dev, len) ==
    LET segments == segmentsOf(dev, len)
        segmentCount == Len(segments) - 1
    IN  segmentCount > 1 \/ xferLenOf(segments) > 8

\* bool spiIsBusy(dev)
spiIsBusy(cur) == cur # BUS_SPI_FREE

\* The bus as the handlers see it.  polled tells in which context the polled
\* loop of spiSequenceStart is left running.
BusState ==
    [curSegment |-> curSegment, initSegment |-> initSegment,
     segmentLink |-> segmentLink, dmaUserParam |-> dmaUserParam,
     polled |-> "none", fault |-> spiFault, busyLeft |-> busyLeft,
     inProgress |-> inProgress, deferred |-> deferred,
     completed |-> completed]

\* void spiSequenceStart(dev, segments), up to the start of the DMA or the
\* entry of the polled loop.
spiSequenceStart(st, dev, len, context) ==
    LET started == [st EXCEPT !.initSegment = TRUE,
                              !.curSegment = [list |-> dev, idx |-> 1],
                              !.inProgress = @ \cup {dev},
                              !.deferred = @ \ {dev}]
    IN  IF useDMA(dev, len) THEN [started EXCEPT !.dmaUserParam = dev,
                                                 !.polled = "none"]
        ELSE [started EXCEPT !.polled = context]

\* What a segment's callback may answer.
callbackResults(segment, busy) ==
    IF segment.callback
       THEN {"BUS_READY", "BUS_ABORT"}
               \cup (IF busy > 0 THEN {"BUS_BUSY"} ELSE {})
       ELSE {"BUS_READY"}

\* The end of the segment list: start the linked transfer or free the bus.
endOfList(st, len, context) ==
    LET list == st.curSegment.list
        ended == [st EXCEPT !.inProgress = @ \ {list},
                            !.completed = @ \cup {list},
                            !.polled = "none"]
    IN  IF st.segmentLink[list] # "none"
           THEN spiSequenceStart(
                    [ended EXCEPT !.segmentLink[list] = "none"],
                    st.segmentLink[list], len, context)
           ELSE [ended EXCEPT !.curSegment = BUS_SPI_FREE]

\* static void spiIrqHandler(dev), after spiRxIrqHandler stopped the DMA.
spiIrqHandler(st, dev, len, result) ==
    LET cur == st.curSegment
        next == [cur EXCEPT !.idx = @ + 1]
    IN  CASE result = "BUS_BUSY" ->
               [st EXCEPT !.initSegment = FALSE, !.dmaUserParam = dev,
                          !.busyLeft = @ - 1]
          [] result = "BUS_ABORT" ->
               [st EXCEPT !.curSegment = BUS_SPI_FREE,
                          !.inProgress = @ \ {cur.list}]
          [] OTHER ->
               IF segmentsOf(next.list, len)[next.idx].len = 0
                  THEN endOfList(st, len, "isr")
                  ELSE [st EXCEPT !.curSegment = next,
                                  !.initSegment = FALSE,
                                  !.dmaUserParam = dev]

\* One pass of the polled loop of spiSequenceStart, or its exit.
polledStep(st, len, context, result) ==
    LET cur == st.curSegment
    IN  IF segmentsOf(cur.list, len)[cur.idx].len # 0
           THEN CASE result = "BUS_BUSY" ->
                       [st EXCEPT !.busyLeft = @ - 1, !.polled = context]
                  [] result = "BUS_ABORT" ->
                       [st EXCEPT !.curSegment = BUS_SPI_FREE,
                                  !.inProgress = @ \ {cur.list},
                                  !.polled = "none"]
                  [] OTHER ->
                       [st EXCEPT !.curSegment = [cur EXCEPT !.idx = @ + 1],
                                  !.polled = context]
           ELSE endOfList(st, len, context)

\* The deferral of spiSequence: record dev and segments in the terminating
\* segment of the transfer in progress.
deferTransfer(st, dev) ==
    [st EXCEPT !.segmentLink[st.curSegment.list] = dev,
               !.deferred = @ \cup {dev}]

\* The test of spiSequence under ATOMIC_BLOCK.
mustDefer(cur) == cur # BUS_SPI_LOCKED /\ spiIsBusy(cur)

\* A handler that reads through curSegment while it holds no pointer into a
\* list: the system faults, or the handler goes on and leaves the bus free.
dereferenceMark(st) ==
    {[st EXCEPT !.fault = TRUE],
     [st EXCEPT !.curSegment = BUS_SPI_FREE, !.polled = "none"]}

Install(st) ==
    /\ curSegment' = st.curSegment
    /\ initSegment' = st.initSegment
    /\ segmentLink' = st.segmentLink
    /\ dmaUserParam' = st.dmaUserParam
    /\ spiFault' = st.fault
    /\ busyLeft' = st.busyLeft
    /\ inProgress' = st.inProgress
    /\ deferred' = st.deferred
    /\ completed' = st.completed

SpiInit ==
    /\ useAtomicWait \in BOOLEAN
    /\ mainLen \in MainLens
    /\ curSegment = BUS_SPI_FREE
    /\ initSegment = FALSE
    /\ segmentLink = [dev \in SpiDevices |-> "none"]
    /\ dmaUserParam = "none"
    /\ mainPc = "idle"
    /\ isrPolled = FALSE
    /\ spiFault = FALSE
    /\ mainCallsLeft = MaxMainCalls
    /\ isrLeft = [dev \in IsrDevices |-> MaxIsrRequests]
    /\ busyLeft = MaxBusy
    /\ inProgress = {}
    /\ deferred = {}
    /\ completed = {}
    /\ waitReturned = FALSE

\* The blocking caller runs when no interrupt handler does.
MainRuns == ~spiFault /\ ~isrPolled

\* An interrupt is taken when the system runs and no handler is active.
IsrRuns == ~spiFault /\ ~isrPolled

\* void spiReadWriteBuf(dev, txData, rxData, len): entry.
SpiReadWriteBuf ==
    /\ MainRuns
    /\ mainPc = "idle"
    /\ mainCallsLeft > 0
    /\ mainCallsLeft' = mainCallsLeft - 1
    /\ mainPc' = "spiWaitClaim"
    /\ waitReturned' = FALSE
    /\ completed' = completed \ {MainDevice}
    /\ UNCHANGED <<useAtomicWait, curSegment, initSegment, segmentLink,
                   dmaUserParam, isrPolled, spiFault, mainLen, isrLeft,
                   busyLeft, inProgress, deferred>>

\* spiWaitClaim: the ATOMIC_BLOCK of one pass of the do-loop, or the wait
\* for completion of the other branch.  A pass that finds the bus busy
\* changes nothing.
SpiWaitClaim ==
    /\ MainRuns
    /\ mainPc = "spiWaitClaim"
    /\ curSegment = BUS_SPI_FREE
    /\ IF useAtomicWait
          THEN /\ curSegment' = BUS_SPI_LOCKED
               /\ mainPc' = "claimTest"
          ELSE /\ curSegment' = curSegment
               /\ mainPc' = "spiSequence"
    /\ UNCHANGED <<useAtomicWait, initSegment, segmentLink, dmaUserParam,
                   isrPolled, spiFault, mainLen, mainCallsLeft, isrLeft,
                   busyLeft, inProgress, deferred, completed, waitReturned>>

\* spiWaitClaim: while (curSegment != BUS_SPI_LOCKED)
SpiWaitClaimTest ==
    /\ MainRuns
    /\ mainPc = "claimTest"
    /\ mainPc' = IF curSegment = BUS_SPI_LOCKED THEN "spiSequence"
                                               ELSE "spiWaitClaim"
    /\ UNCHANGED <<useAtomicWait, curSegment, initSegment, segmentLink,
                   dmaUserParam, isrPolled, spiFault, mainLen,
                   mainCallsLeft, isrLeft, busyLeft, inProgress, deferred,
                   completed, waitReturned>>

\* spiSequence of the blocking caller: the ATOMIC_BLOCK.
MainSpiSequence ==
    /\ MainRuns
    /\ mainPc = "spiSequence"
    /\ IF mustDefer(curSegment)
          THEN /\ Install(deferTransfer(BusState, MainDevice))
               /\ mainPc' = "spiWait"
          ELSE /\ Install(BusState)
               /\ mainPc' = "spiSequenceStart"
    /\ UNCHANGED <<useAtomicWait, isrPolled, mainLen, mainCallsLeft,
                   isrLeft, waitReturned>>

\* spiSequence of the blocking caller: spiSequenceStart, after the
\* ATOMIC_BLOCK was left.
MainSpiSequenceStart ==
    /\ MainRuns
    /\ mainPc = "spiSequenceStart"
    /\ LET st == spiSequenceStart(BusState, MainDevice, mainLen, "main")
       IN  /\ Install(st)
           /\ mainPc' = IF st.polled = "main" THEN "polled" ELSE "spiWait"
    /\ UNCHANGED <<useAtomicWait, isrPolled, mainLen, mainCallsLeft,
                   isrLeft, waitReturned>>

\* The polled loop of spiSequenceStart in the blocking caller.
MainPolled ==
    /\ MainRuns
    /\ mainPc = "polled"
    /\ \E st \in (IF isSegment(curSegment, mainLen)
                     THEN {polledStep(BusState, mainLen, "main", result) :
                             result \in callbackResults(
                                 segmentsOf(curSegment.list,
                                            mainLen)[curSegment.idx],
                                 busyLeft)}
                     ELSE dereferenceMark(BusState)) :
          /\ Install(st)
          /\ mainPc' = IF st.polled = "main" THEN "polled" ELSE "spiWait"
    /\ UNCHANGED <<useAtomicWait, isrPolled, mainLen, mainCallsLeft,
                   isrLeft, waitReturned>>

\* void spiWait(dev): returns when the bus is free.
SpiWait ==
    /\ MainRuns
    /\ mainPc = "spiWait"
    /\ curSegment = BUS_SPI_FREE
    /\ mainPc' = "idle"
    /\ waitReturned' = TRUE
    /\ UNCHANGED <<useAtomicWait, curSegment, initSegment, segmentLink,
                   dmaUserParam, isrPolled, spiFault, mainLen,
                   mainCallsLeft, isrLeft, busyLeft, inProgress, deferred,
                   completed>>

\* void spiSequence(dev, segments) called from an interrupt handler of a
\* device whose list is not in use.
IsrSpiSequence ==
    /\ IsrRuns
    /\ \E dev \in IsrDevices :
          /\ isrLeft[dev] > 0
          /\ dev \notin inProgress \cup deferred
          /\ isrLeft' = [isrLeft EXCEPT ![dev] = @ - 1]
          /\ LET st == IF mustDefer(curSegment)
                          THEN deferTransfer(BusState, dev)
                          ELSE spiSequenceStart(BusState, dev, mainLen, "isr")
             IN  /\ Install(st)
                 /\ isrPolled' = (st.polled = "isr")
    /\ UNCHANGED <<useAtomicWait, mainPc, mainLen, mainCallsLeft,
                   waitReturned>>

\* spiRxIrqHandler: the DMA transfer in flight is complete.
SpiRxIrqHandler ==
    /\ IsrRuns
    /\ dmaUserParam # "none"
    /\ LET stopped == [BusState EXCEPT !.dmaUserParam = "none"]
       IN  \E st \in (IF isDataSegment(curSegment, mainLen)
                         THEN {spiIrqHandler(stopped, dmaUserParam, mainLen,
                                             result) :
                                 result \in callbackResults(
                                     segmentsOf(curSegment.list,
                                                mainLen)[curSegment.idx],
                                     busyLeft)}
                         ELSE dereferenceMark(stopped)) :
              /\ Install(st)
              /\ isrPolled' = (st.polled = "isr")
    /\ UNCHANGED <<useAtomicWait, mainPc, mainLen, mainCallsLeft, isrLeft,
                   waitReturned>>

\* The polled loop of spiSequenceStart inside an interrupt handler.
IsrPolled ==
    /\ ~spiFault
    /\ isrPolled
    /\ \E st \in (IF isSegment(curSegment, mainLen)
                     THEN {polledStep(BusState, mainLen, "isr", result) :
                             result \in callbackResults(
                                 segmentsOf(curSegment.list,
                                            mainLen)[curSegment.idx],
                                 busyLeft)}
                     ELSE dereferenceMark(BusState)) :
          /\ Install(st)
          /\ isrPolled' = (st.polled = "isr")
    /\ UNCHANGED <<useAtomicWait, mainPc, mainLen, mainCallsLeft, isrLeft,
                   waitReturned>>

SpiNext ==
    \/ SpiReadWriteBuf /\ UNCHANGED notSpiVars
    \/ SpiWaitClaim /\ UNCHANGED notSpiVars
    \/ SpiWaitClaimTest /\ UNCHANGED notSpiVars
    \/ MainSpiSequence /\ UNCHANGED notSpiVars
    \/ MainSpiSequenceStart /\ UNCHANGED notSpiVars
    \/ MainPolled /\ UNCHANGED notSpiVars
    \/ SpiWait /\ UNCHANGED notSpiVars
    \/ IsrSpiSequence /\ UNCHANGED notSpiVars
    \/ SpiRxIrqHandler /\ UNCHANGED notSpiVars
    \/ IsrPolled /\ UNCHANGED notSpiVars

-----------------------------------------------------------------------------
(* Specifications                                                          *)

\* The initial values the variables of a part keep in the specifications
\* that do not exercise it.
ChannelParked ==
    /\ ChannelInit
    /\ watch = THROTTLE

ArmingParked ==
    /\ build = "board"
    /\ events = <<>>
    /\ switchOffSeen = FALSE
    /\ BoardInit
    /\ hfBeginArmed = FALSE
    /\ hf = [armed |-> FALSE, failsafe |-> FALSE, safeToArm |-> FALSE]
    /\ hfIn = NoInput

SignalParked == SignalInit

StepParked ==
    /\ StepInit
    /\ nowCycles = 0

GovernorParked ==
    /\ GovernorInit
    /\ gyroPeriod = 21000

ParserParked ==
    /\ ParserInit
    /\ 215 \in serialLine

SerializeParked ==
    /\ SerializeInit
    /\ serValue = 0

SmoothingParked ==
    /\ SmoothingInit
    /\ rxClockUs = 5900000
    /\ linkPlan = <<Seg(65500, 100, TRUE)>>

FailValueParked ==
    /\ FailValueInit
    /\ failStep = 30

PollParked ==
    /\ PollInit

SpiParked ==
    /\ SpiInit
    /\ useAtomicWait
    /\ mainLen = 16

ArmingSpecInit ==
    /\ ChannelParked
    /\ SignalParked
    /\ StepParked
    /\ GovernorParked
    /\ ParserParked
    /\ SerializeParked
    /\ SmoothingParked
    /\ build \in {"board", "hackflight"}
    /\ events = <<>>
    /\ switchOffSeen = FALSE
    /\ BoardInit
    /\ HackflightInit
    /\ FailValueParked
    /\ PollParked
    /\ SpiParked

ArmingNext ==
    \/ BoardNext /\ UNCHANGED notArmingVars
    \/ HackflightNext /\ UNCHANGED notArmingVars

SpecArming == ArmingSpecInit /\ [][ArmingNext]_vars

RxSpecInit ==
    /\ ChannelInit
    /\ ArmingParked
    /\ SignalParked
    /\ StepParked
    /\ GovernorParked
    /\ ParserParked
    /\ SerializeParked
    /\ SmoothingParked
    /\ FailValueParked
    /\ PollParked
    /\ SpiParked

SpecRx == RxSpecInit /\ [][ChannelNext]_vars

\* The receiver before the first frame, the clock at one of ClockStarts.
SignalSpecInit ==
    /\ now \in ClockStarts
    /\ clockTicks = 0
    /\ m_raw = [channel \in Channels |-> 0]
    /\ m_invalidPulsePeriod = [channel \in Channels |-> 0]
    /\ m_signalReceived = FALSE
    /\ m_inFailsafeMode = FALSE
    /\ m_dataProcessingRequired = FALSE
    /\ watch = THROTTLE
    /\ lastValid = NoPulse
    /\ rxEvent = NoRxEvent
    /\ ArmingParked
    /\ SignalInit
    /\ StepParked
    /\ GovernorParked
    /\ ParserParked
    /\ SerializeParked
    /\ SmoothingParked
    /\ FailValueParked
    /\ PollParked
    /\ SpiParked

SpecSignal == SignalSpecInit /\ [][SignalNext]_vars

StepSpecInit ==
    /\ StepInit
    /\ ArmingParked
    /\ ChannelParked
    /\ SignalParked
    /\ GovernorParked
    /\ ParserParked
    /\ SerializeParked
    /\ SmoothingParked
    /\ FailValueParked
    /\ PollParked
    /\ SpiParked

SpecStep == StepSpecInit /\ [][StepNext]_vars

GovernorSpecInit ==
    /\ GovernorInit
    /\ ArmingParked
    /\ ChannelParked
    /\ SignalParked
    /\ StepParked
    /\ ParserParked
    /\ SerializeParked
    /\ SmoothingParked
    /\ FailValueParked
    /\ PollParked
    /\ SpiParked

SpecGovernor == GovernorSpecInit /\ [][GovernorNext]_vars

ParserSpecInit ==
    /\ ParserInit
    /\ ArmingParked
    /\ ChannelParked
    /\ SignalParked
    /\ StepParked
    /\ GovernorParked
    /\ SerializeParked
    /\ SmoothingParked
    /\ FailValueParked
    /\ PollParked
    /\ SpiParked

SpecParser == ParserSpecInit /\ [][ParserNext]_vars

SerializeSpecInit ==
    /\ SerializeInit
    /\ ArmingParked
    /\ ChannelParked
    /\ SignalParked
    /\ StepParked
    /\ GovernorParked
    /\ ParserParked
    /\ SmoothingParked
    /\ FailValueParked
    /\ PollParked
    /\ SpiParked

SpecSerialize == SerializeSpecInit /\ [][SerializeNext]_vars

SmoothingSpecInit ==
    /\ SmoothingInit
    /\ ArmingParked
    /\ ChannelParked
    /\ SignalParked
    /\ StepParked
    /\ GovernorParked
    /\ ParserParked
    /\ SerializeParked
    /\ FailValueParked
    /\ PollParked
    /\ SpiParked

SpecSmoothing == SmoothingSpecInit /\ [][SmoothingNext]_vars

\* C12: after a call of Receiver::check that ran in STATE_CHECK,
\* m_signalReceived is true exactly when a complete frame that was neither
\* failsafe nor dropped was received less than NEED_SIGNAL_MAX_DELAY_US
\* (100 ms) before the call, wherever the 32-bit clock stands.
C12_SignalWithinDeadline ==
    sigEvent.ran =>
        (m_signalReceived <=>
            (lastGood.seen
             /\ cmp32(now, lastGood.us) < NEED_SIGNAL_MAX_DELAY_US))

\* C13: the deadline test of Receiver::check gives the outcome of the signed
\* difference (int32_t)(currentTimeUs - m_needSignalBefore) >= 0, before and
\* after the clock wraps.
C13_SignedDeadlineTest ==
    (sigEvent.ran /\ ~sigEvent.good) =>
        (sigEvent.deadlinePassed <=> cmp32(now, m_needSignalBefore) >= 0)

\* C10: for the followed channel, when a pulse outside [885, 2115] arrives
\* after a valid one, the value the receiver produces (m_raw[channel] after
\* detectAndApplySignalLossBehaviour) is the last valid pulse while less
\* than 300 ms have passed since that valid pulse, unless the frame put the
\* receiver in failsafe mode; and it is the fallback of a flight channel
\* (885 for throttle, 1500 for roll, pitch and yaw) from 300 ms on.
C10_HoldLastValid ==
    (/\ rxEvent.op = "process"
     /\ lastValid.seen
     /\ ~isPulseValid(rxEvent.sample))
        => IF usToMs(now) - lastValid.ms < MAX_INVALID__PULSE_TIME
              THEN ~m_inFailsafeMode => m_raw[watch] = lastValid.val
              ELSE watch < 4 =>
                      m_raw[watch] = (IF watch = THROTTLE THEN 885 ELSE 1500)

\* C11: when the pulse of a flight channel (0..3) is invalid and the hold
\* window of that channel is over (no valid pulse yet, or the last one 300 ms
\* old or older), the receiver calls Failsafe::onValidDataFailed; and
\* whenever it does, m_inFailsafeMode is true and every flight channel holds
\* its fallback (885 for throttle, 1500 for roll, pitch and yaw), an
\* auxiliary channel holding the value its HOLD mode keeps.
C11_FailsafeAllChannels ==
    /\ (/\ rxEvent.op = "process"
        /\ watch < 4
        /\ ~isPulseValid(rxEvent.sample)
        /\ \/ ~lastValid.seen
           \/ usToMs(now) - lastValid.ms >= MAX_INVALID__PULSE_TIME)
          => rxEvent.failsafe = "onValidDataFailed"
    /\ (rxEvent.op = "process" /\ rxEvent.failsafe = "onValidDataFailed")
          => /\ m_inFailsafeMode
             /\ \A channel \in Channels :
                   channel < 4 =>
                      m_raw[channel] = (IF channel = THROTTLE THEN 885 ELSE 1500)
             /\ watch >= 4 => m_raw[watch] = rxEvent.sample

\* A roll pulse turns invalid 300 ms or more after the last valid one.
C11_Witness ==
    /\ rxEvent.op = "process"
    /\ watch = ROLL
    /\ lastValid.seen
    /\ ~isPulseValid(rxEvent.sample)
    /\ usToMs(now) - lastValid.ms >= MAX_INVALID__PULSE_TIME
    /\ rxEvent.failsafe = "onValidDataFailed"
    /\ m_inFailsafeMode

FailValueSpecInit ==
    /\ FailValueInit
    /\ ChannelParked
    /\ ArmingParked
    /\ SignalParked
    /\ StepParked
    /\ GovernorParked
    /\ ParserParked
    /\ SerializeParked
    /\ SmoothingParked
    /\ PollParked
    /\ SpiParked

SpecFailValue == FailValueSpecInit /\ [][FailValueNext]_vars

PollSpecInit ==
    /\ PollInit
    /\ ChannelParked
    /\ ArmingParked
    /\ SignalParked
    /\ StepParked
    /\ GovernorParked
    /\ ParserParked
    /\ SerializeParked
    /\ SmoothingParked
    /\ FailValueParked
    /\ SpiParked

SpecPoll == PollSpecInit /\ [][PollNext]_vars

SpiSpecInit ==
    /\ SpiInit
    /\ ChannelParked
    /\ ArmingParked
    /\ SignalParked
    /\ StepParked
    /\ GovernorParked
    /\ ParserParked
    /\ SerializeParked
    /\ SmoothingParked
    /\ FailValueParked
    /\ PollParked

SpecSpi == SpiSpecInit /\ [][SpiNext]_vars

\* The blocking caller keeps running, a DMA transfer in flight completes and
\* a polled loop goes on; interrupt handlers call spiSequence when they like.
SpiFairness == WF_spiVars(SpiWaitClaim) /\ WF_spiVars(SpiWaitClaimTest) /\ WF_spiVars(MainSpiSequence) /\ WF_spiVars(MainSpiSequenceStart) /\ WF_spiVars(MainPolled) /\ WF_spiVars(SpiWait) /\ WF_spiVars(SpiRxIrqHandler) /\ WF_spiVars(IsrPolled)

SpecSpiLive == SpiSpecInit /\ [][SpiNext]_vars /\ SpiFairness

-----------------------------------------------------------------------------
(* Properties of the arming state machine                                  *)

\* All preconditions of arming, spelled out flag by flag.
AllFlagsReady(a) ==
    /\ a.accDoneCalibrating /\ a.angleOkay /\ a.haveSignal
    /\ a.gyroDoneCalibrating /\ a.switchOkay /\ a.throttleIsDown
    /\ ~a.gotFailsafe

\* C1: in Board, isArmed goes from false to true only in a step that ran
\* attemptToArm with the arm switch set, from a state where every readiness
\* flag is true and gotFailsafe is false; and attemptToArm with the switch
\* not set always leaves isArmed false, whatever the flags are.
C1_ArmOnlyWhenReady ==
    [][ /\ (~m_arming.isArmed /\ m_arming'.isArmed)
             => /\ First(events', "attemptToArm")
                /\ rx'.aux1
                /\ AllFlagsReady(m_arming)
        /\ (First(events', "attemptToArm") /\ ~rx'.aux1)
             => ~m_arming'.isArmed ]_vars

C1_Witness ==
    /\ build = "board"
    /\ m_arming.isArmed
    /\ First(events, "attemptToArm")
    /\ InSeq("arm", events)

C3_FailsafeLatching ==
    /\ build = "board" => (m_arming.gotFailsafe => ~m_arming.isArmed)
    /\ build = "hackflight" => (hf.failsafe => ~hf.armed)

\* After a failsafe, with the switch seen off and raised again and every
\* other precondition ready, an arming attempt has just been made.
C3_Witness ==
    /\ build = "board"
    /\ m_arming.gotFailsafe
    /\ First(events, "attemptToArm")
    /\ rx.aux1
    /\ escIsReady
    /\ m_arming.accDoneCalibrating /\ m_arming.angleOkay
    /\ m_arming.gyroDoneCalibrating /\ m_arming.haveSignal
    /\ m_arming.throttleIsDown /\ m_arming.switchOkay

\* C4: when the vehicle is armed and the receiver update sees no signal
\* (Board: updateFromReceiver with haveSignal false, Hackflight:
\* checkReceiver with lostSignal), that same update sets the failsafe flag,
\* stops the motors and clears the armed flag.
C4_SignalLossWhileArmed ==
    [][ /\ (/\ build = "board"
            /\ m_arming.isArmed
            /\ First(events', "updateFromReceiver")
            /\ ~rx'.signal)
             => /\ m_arming'.gotFailsafe
                /\ ~m_arming'.isArmed
                /\ InSeq("stop", events')
        /\ (/\ build = "hackflight"
            /\ hf.armed
            /\ hfIn'.lostSignal)
             => /\ hf'.failsafe
                /\ ~hf'.armed
                /\ InSeq("cut", events') ]_vars

C4_Witness ==
    /\ build = "board"
    /\ First(events, "updateFromReceiver")
    /\ InSeq("clear", events)
    /\ ~rx.signal
    /\ m_arming.gotFailsafe

\* C5: in every handler, each clearing of the armed flag from true to false
\* is preceded, in that handler, by a motor stop (Esc::stop, Actuator::cut).
C5_StopBeforeClear ==
    \A i \in 1..Len(events) :
        events[i] = "clear" =>
            \E j \in 1..(i - 1) : events[j] \in {"stop", "cut"}

\* C6 as stated: after a receiver update that applied the throttle-down cut,
\* the armed flag is false.
C6_ThrottleCutDisarms ==
    InSeq("throttleCut", events) => ~hf.armed

\* C6, amended: the throttle-down cut stops the motors and leaves the
\* vehicle armed: after a Hackflight receiver update that applied the cut
\* the armed flag is true, and a Board receiver update of an armed vehicle
\* that has signal leaves isArmed true whatever the throttle is.
C6_ThrottleCutKeepsArmed ==
    [][ /\ InSeq("throttleCut", events') => hf'.armed
        /\ (/\ build = "board"
            /\ m_arming.isArmed
            /\ First(events', "updateFromReceiver")
            /\ rx'.signal)
             => m_arming'.isArmed ]_vars

C6_Witness ==
    /\ build = "hackflight"
    /\ InSeq("throttleCut", events)
    /\ ~InSeq("arm", events)
    /\ hf.armed

\* C7: when the receiver reads a frame with the arm switch raised while the
\* board is disarmed and ready to arm, and the ESC is ready when the attempt
\* is made, isArmed is true once the UPDATE step of that same pass has been
\* handled, one poll after the frame was read.
C7_ArmsWithinOnePass ==
    (build = "board" /\ armPass.held /\ armPass.polls = 1)
        => m_arming.isArmed

C7_Witness ==
    /\ build = "board"
    /\ armPass.held
    /\ armPass.polls = 1
    /\ rx.state = "UPDATE"
    /\ m_arming.isArmed

\* C8: attemptToArm with the arm switch set, every readiness flag true, the
\* vehicle disarmed and the ESC not ready changes no arming flag: isArmed
\* stays false.
C8_EscNotReadyDenied ==
    [][ (/\ build = "board"
         /\ First(events', "attemptToArm")
         /\ rx'.aux1
         /\ AllFlagsReady(m_arming)
         /\ ~m_arming.isArmed
         /\ ~escIsReady)
          => /\ m_arming' = m_arming
             /\ ~m_arming'.isArmed
             /\ doNotRepeat' = doNotRepeat ]_vars

C8_Witness ==
    /\ build = "board"
    /\ First(events, "attemptToArm")
    /\ InSeq("escNotReady", events)
    /\ rx.aux1
    /\ AllFlagsReady(m_arming)
    /\ ~m_arming.isArmed

\* C9: the frame an inner tick writes to the ESC is the mixer output exactly
\* when the board is armed; when it is disarmed the frame is the visualizer's
\* override frame.
C9_EscFrameByArming ==
    First(events, "checkCoreTasks") =>
        /\ escFrame.src = (IF m_arming.isArmed THEN "mixer" ELSE "override")
        /\ ~m_arming.isArmed => escFrame.val = vizMotors

C9_Witness ==
    /\ First(events, "checkCoreTasks")
    /\ ~m_arming.isArmed
    /\ escFrame.src = "override"
    /\ escFrame.val > 0

-----------------------------------------------------------------------------
(* Properties of Board::step                                               *)

CoreOrder == <<"spin", "gyro", "demands", "mixer", "write", "post", "dynamic">>

IsPrefix(s, t) == Len(s) <= Len(t) /\ \A i \in 1..Len(s) : s[i] = t[i]

InLog(what) == \E i \in 1..Len(tick.log) : tick.log[i] = what

\* The task the claim names: the eligible task of greatest age, the first of
\* them in table order, or NONE.
OldestEligible(ages) ==
    LET eligible == {i \in 1..3 : ages[i] >= 1}
    IN  IF eligible = {} THEN "NONE"
        ELSE Tasks[CHOOSE i \in eligible :
                     \A j \in eligible :
                        ages[j] < ages[i] \/ (ages[j] = ages[i] /\ i <= j)]

\* C14: within one call of Board::step the steps of the inner tick come in
\* the order spin-wait, gyro read, read of the demands, mixer step, ESC
\* write, scheduler post-update, and an outer task runs only after all of
\* them; the demands and the vehicle state the mixer was given are still the
\* current ones when the tick ends, no task having changed them in between.
C14_InnerTickOrder ==
    /\ IsPrefix(tick.log, CoreOrder) \/ tick.log = <<"dynamic">>
    /\ (InLog("mixer") /\ ~InLog("dynamic"))
          => tick.mix = [demands |-> rxDemands, vstate |-> vstate]

C14_Witness ==
    /\ tick.log = CoreOrder
    /\ dynEvent.ran
    /\ dynEvent.picked = "RECEIVER"
    /\ rxDemands # tick.mix.demands

\* C15 as stated: a tick that finds the gyro not ready invokes no mixer and
\* writes no motor frame.
C15_GyroMissSkipsTick ==
    (InLog("gyro") /\ ~tick.gyroWasReady)
        => (~InLog("mixer") /\ ~InLog("write"))

\* C15: a tick that finds the gyro not ready skips only the gyro read: the
\* vehicle state keeps the rates of the previous read, the mixer is invoked
\* on them and the motor frame is written.
C15_GyroMissKeepsRates ==
    /\ (InLog("gyro") /\ ~tick.gyroWasReady) => vstate = tick.vstateBefore
    /\ (InLog("post") /\ ~tick.gyroWasReady)
          => /\ InLog("mixer")
             /\ InLog("write")
             /\ tick.mix.vstate = tick.vstateBefore

C15_Witness ==
    /\ InLog("post")
    /\ ~tick.gyroWasReady
    /\ InLog("write")
    /\ tick.vstateBefore > 0
    /\ tick.mix.vstate = tick.vstateBefore

\* C16: the body of the task handed to runTask is started exactly when its
\* admission test passed (checkReady returned a positive cycle count), and a
\* started task is followed by exactly one postRunTask.
C16_StartedIffAdmitted ==
    dynEvent.called
        => /\ dynEvent.ran <=> dynEvent.required > 0
           /\ dynEvent.postRuns = (IF dynEvent.ran THEN 1 ELSE 0)

\* C17: a call of checkDynamicTasks chooses the eligible task (age >= 1) of
\* greatest age, the first in table order among equals, runs no other task,
\* and runs none when no task is eligible.
C17_OldestTaskFirst ==
    dynEvent.ready
        => /\ dynEvent.picked = OldestEligible(dynEvent.ages)
           /\ dynEvent.postRuns <= 1
           /\ dynEvent.picked = "NONE" => ~dynEvent.ran

C17_Witness ==
    /\ dynEvent.ready
    /\ dynEvent.ran
    /\ dynEvent.ages = [i \in 1..3 |-> IF i = 1 THEN 1 ELSE 2]
    /\ dynEvent.picked = "ATTITUDE"

\* C20: the gyro read, the mixer step and the ESC write of a tick happen
\* only when the cycle counter has reached the tick's target, also when the
\* 32-bit counter wrapped on the way.
C20_AfterTargetReached ==
    pc \in {"gyro", "demands", "mixer", "write", "post"}
        => /\ cyclesRun >= targetRun
           /\ intcmp(nextTargetCycles, nowCycles) <= 0

C20_Witness ==
    /\ pc = "gyro"
    /\ tick.spun
    /\ nowCycles >= 0
    /\ cyclesRun > nowCycles

-----------------------------------------------------------------------------
(* Properties of the gyro lock                                             *)

C19_SignedSkewAverage ==
    gov.locked
        => /\ lastTargetCycles
                 = gov.lastTargetBefore - SignedAverage(gov.accum)
           /\ gyroSkewAccum = 0

-----------------------------------------------------------------------------
(* Properties of the MSP parser                                            *)

RECURSIVE xorOfBuffer(_, _)
xorOfBuffer(from, to) ==
    IF from > to THEN 0 ELSE xor8(buffer[from], xorOfBuffer(from + 1, to))

\* C21: a byte that does not continue the header ('M' after '$', '<' or '>'
\* after 'M') returns the parser to state 0, builds no reply and leaves the
\* reply size and the motor outputs as they were.
C21_BadByteResets ==
    (/\ parse.called
     /\ \/ parse.state = 1 /\ parse.byte # 77
        \/ parse.state = 2 /\ parse.byte \notin {60, 62})
        => /\ parser_state_ = 0
           /\ ~parse.bufferWritten
           /\ buffer_size_ = parse.sizeBefore
           /\ motor_index = 0
           /\ motor_percent = 0

\* C22: the call that receives the last byte of a frame whose checksum does
\* not match builds no reply, does not reset buffer_index and leaves the
\* parser in state 0.
C22_BadChecksumDiscarded ==
    (parse.called /\ frame.done = "rejected")
        => /\ ~parse.ready
           /\ ~parse.bufferWritten
           /\ buffer_index = parse.indexBefore
           /\ parser_state_ = 0

\* C23: a call of parser_parse leaves motor_index or motor_percent non-zero
\* only when it completes a checksum-valid frame of type 215 with two
\* payload bytes, and then they are those two bytes.
C23_MotorOutputsOnlyOnFrame ==
    (parse.called /\ (motor_index # 0 \/ motor_percent # 0))
        => /\ frame.done = "accepted"
           /\ frame.type = 215
           /\ Len(frame.payload) = 2
           /\ motor_index = frame.payload[1]
           /\ motor_percent = frame.payload[2]

\* C24: the reply parser_parse builds for type 122 (121) is '$' 'M' '>',
\* length 12 (24), the type, the encoded values, and a last byte equal to
\* the XOR of the length, the type and the payload bytes; the reported
\* buffer_size is 6 + length.
C24_ReplyWellFormed ==
    (parse.called /\ parse.ready /\ type_ \in {121, 122})
        => LET length == IF type_ = 122 THEN 12 ELSE 24
           IN  /\ buffer[0] = 36 /\ buffer[1] = 77 /\ buffer[2] = 62
               /\ buffer[3] = length
               /\ buffer[4] = type_
               /\ Len(parse.values) * 4 = length
               /\ \A i \in 1..Len(parse.values), k \in 0..3 :
                     buffer[5 + 4 * (i - 1) + k] =
                        byteOf32(floatToUint32(parse.values[i],
                                               parse.conversion), k)
               /\ buffer[5 + length] = xorOfBuffer(3, 4 + length)
               /\ buffer_size = 6 + length

C24_Witness ==
    /\ parse.called
    /\ parse.ready
    /\ frame.done = "accepted"
    /\ frame.type = 122
    /\ frame.size = 0
    /\ parse.values = <<7, 10000, -25000>>
    /\ buffer[17] # 0
    /\ buffer_size = 18

-----------------------------------------------------------------------------
(* Properties of serializeFloat                                            *)

\* (value + 2) * 1000 rounded to the nearest integer, value in units of
\* 0.0001.
RoundedMillis(value) ==
    LET tenths == value + 20000
    IN  IF tenths >= 0 THEN (tenths + 5) \div 10 ELSE -((5 - tenths) \div 10)

\* (value + 2) * 1000 truncated toward zero.
TruncatedMillis(value) ==
    LET tenths == value + 20000
    IN  IF tenths >= 0 THEN tenths \div 10 ELSE -((-tenths) \div 10)

LittleEndian(u) == [i \in 0..3 |-> byteOf32(u, i)]

\* C25 as stated: the four bytes serializeFloat emits are round((v + 2) *
\* 1000) as an unsigned 32-bit integer, least-significant byte first.
C25_EncodesRounded ==
    serOut.size = 4 => serOut.buffer = LittleEndian(RoundedMillis(serValue))

\* C25: the four bytes serializeFloat emits are, least-significant byte
\* first, (v + 2) * 1000 truncated toward zero when that is not negative;
\* when it is negative the conversion to uint32_t is undefined and yields 0
\* or the two's complement of the truncated value.  The checksum is XORed
\* with the four bytes.
C25_EncodesTruncated ==
    serOut.size = 4
        => /\ IF TruncatedMillis(serValue) >= 0
                 THEN serOut.buffer = LittleEndian(TruncatedMillis(serValue))
                 ELSE serOut.buffer \in
                         {LittleEndian(0),
                          LittleEndian(TruncatedMillis(serValue))}
           /\ serOut.checksum =
                 xor8(xor8(serOut.buffer[0], serOut.buffer[1]),
                      xor8(serOut.buffer[2], serOut.buffer[3]))

C25_Witness ==
    /\ serOut.size = 4
    /\ serValue = 7
    /\ serOut.buffer = [i \in 0..3 |-> IF i = 0 THEN 208
                                       ELSE IF i = 1 THEN 7 ELSE 0]

-----------------------------------------------------------------------------
(* Properties of the smoothing filter training                             *)

RECURSIVE SeqSum(_)
SeqSum(s) == IF s = <<>> THEN 0 ELSE Head(s) + SeqSum(Tail(s))

SeqMin(s) == CHOOSE x \in {s[i] : i \in DOMAIN s} :
                 \A i \in DOMAIN s : x <= s[i]

SeqMax(s) == CHOOSE x \in {s[i] : i \in DOMAIN s} :
                 \A i \in DOMAIN s : x >= s[i]

\* n is an integer nearest to total / count.
IsNearest(n, total, count) ==
    /\ 2 * (count * n - total) <= count
    /\ 2 * (total - count * n) <= count

\* C26: when the initial training completes it has taken 50 intervals;
\* averageFrameTimeUs is the mean of the 48 left after one smallest and one
\* largest are discarded, the accumulator is reset, and 50 equal intervals T
\* give T.
C26_InitialTrainingAverage ==
    (smooth.trained /\ ~smooth.initializedBefore)
        => LET w == smooth.window
               kept == SeqSum(w) - SeqMin(w) - SeqMax(w)
           IN  /\ Len(w) = SMOOTHING_FILTER_TRAINING_SAMPLES
               /\ \A i \in DOMAIN w :
                      w[i] >= SMOOTHING_RATE_MIN_US
                          /\ w[i] <= SMOOTHING_RATE_MAX_US
               /\ IsNearest(m_smoothingFilter.averageFrameTimeUs, kept, 48)
               /\ (\A i \in DOMAIN w : w[i] = w[1])
                      => m_smoothingFilter.averageFrameTimeUs = w[1]
               /\ m_smoothingFilter.trainingSum = 0
               /\ m_smoothingFilter.trainingCount = 0
               /\ m_smoothingFilter.trainingMin = UINT16_MAX
               /\ m_smoothingFilter.trainingMax = 0
               /\ m_smoothingFilter.filterInitialized

C26_Witness ==
    /\ smooth.trained
    /\ ~smooth.initializedBefore
    /\ SeqMin(smooth.window) = 40000
    /\ SeqMax(smooth.window) = 60000
    /\ m_smoothingFilter.averageFrameTimeUs = 50417

\* The interval of the last frame is less than 20 % away from the average
\* the filter held, above or below.
WithinRateChange ==
    LET d == IF smooth.interval >= smooth.averageBefore
                THEN smooth.interval - smooth.averageBefore
                ELSE smooth.averageBefore - smooth.interval
    IN  100 * d < SMOOTHING_RATE_CHANGE_PERCENT * smooth.averageBefore

\* C27: once the filter is initialized, a frame whose interval is less than
\* 20 % above or below averageFrameTimeUs is not accumulated and, when the
\* guard time has expired, resets the accumulator; and the average is
\* recomputed only after 20 frames in a row that each differ by 20 % or
\* more.
C27_SmallChangeResets ==
    /\ (smooth.newData /\ smooth.initializedBefore /\ WithinRateChange)
           => /\ ~smooth.accumulated
              /\ smooth.decided
                     => /\ smooth.reset
                        /\ m_smoothingFilter.trainingCount = 0
                        /\ m_smoothingFilter.trainingSum = 0
    /\ (smooth.trained /\ smooth.initializedBefore)
           => smooth.streak >= SMOOTHING_FILTER_RETRAINING_SAMPLES

\* C28: a sample is accumulated into an initialized filter only when at
\* least SMOOTHING_FILTER_RETRAINING_DELAY_MS have passed since the last
\* training completed.
C28_RetrainingDelay ==
    (smooth.newData /\ smooth.initializedBefore /\ smooth.accumulated)
        => smooth.elapsedUs >= SMOOTHING_FILTER_RETRAINING_DELAY_MS * 1000

C28_Witness ==
    /\ smooth.newData
    /\ smooth.initializedBefore
    /\ smooth.accumulated
    /\ smooth.interval = 65000
    /\ smooth.elapsedUs >= SMOOTHING_FILTER_RETRAINING_DELAY_MS * 1000
    /\ m_smoothingFilter.trainingCount = 1

\* C29: a frame is accumulated only past the startup delay, with the signal
\* received and an interval within [950, 65500] us; a frame whose interval
\* is outside that range is marked rate-invalid, is not accumulated and
\* leaves the accumulator reset.
C29_OnlyValidFramesAccumulated ==
    /\ smooth.accumulated
           => /\ smooth.timeMs > SMOOTHING_FILTER_STARTUP_DELAY_MS
              /\ smooth.signal
              /\ smooth.interval >= SMOOTHING_RATE_MIN_US
              /\ smooth.interval <= SMOOTHING_RATE_MAX_US
    /\ (/\ smooth.newData
        /\ \/ smooth.interval < SMOOTHING_RATE_MIN_US
           \/ smooth.interval > SMOOTHING_RATE_MAX_US)
           => /\ ~m_isRateValid
              /\ ~smooth.accumulated
              /\ m_smoothingFilter.trainingCount = 0
              /\ m_smoothingFilter.trainingSum = 0

\* C30 as stated: after the first-call initialization the setpoint,
\* throttle and feedforward cutoff frequencies are never below 15 Hz.
C30_CutoffsNeverBelowMin ==
    m_initializedFilter
        => /\ m_smoothingFilter.setpointCutoffFrequency
                  >= SMOOTHING_CUTOFF_MIN_HZ
           /\ m_smoothingFilter.throttleCutoffFrequency
                  >= SMOOTHING_CUTOFF_MIN_HZ
           /\ m_smoothingFilter.feedforwardCutoffFrequency
                  >= SMOOTHING_CUTOFF_MIN_HZ

\* C30: once a training has completed (filterInitialized) the setpoint,
\* throttle and feedforward cutoff frequencies are at least 15 Hz whatever
\* the average frame time; until then the setpoint and throttle cutoff
\* frequencies hold the setting 0 and the feedforward cutoff its initial
\* value, which is above 15 Hz.
C30_CutoffsAtLeastMinOnceTrained ==
    /\ m_smoothingFilter.filterInitialized
           => /\ m_smoothingFilter.setpointCutoffFrequency
                     >= SMOOTHING_CUTOFF_MIN_HZ
              /\ m_smoothingFilter.throttleCutoffFrequency
                     >= SMOOTHING_CUTOFF_MIN_HZ
              /\ m_smoothingFilter.feedforwardCutoffFrequency
                     >= SMOOTHING_CUTOFF_MIN_HZ
    /\ (m_initializedFilter /\ ~m_smoothingFilter.filterInitialized)
           => /\ m_smoothingFilter.setpointCutoffFrequency = 0
              /\ m_smoothingFilter.throttleCutoffFrequency = 0
              /\ m_smoothingFilter.feedforwardCutoffFrequency
                     >= SMOOTHING_CUTOFF_MIN_HZ

C30_Witness ==
    /\ m_smoothingFilter.filterInitialized
    /\ m_smoothingFilter.averageFrameTimeUs = 65500
    /\ calcAutoSmoothingCutoff(65500, 30) < SMOOTHING_CUTOFF_MIN_HZ
    /\ m_smoothingFilter.setpointCutoffFrequency = SMOOTHING_CUTOFF_MIN_HZ
    /\ m_smoothingFilter.throttleCutoffFrequency = SMOOTHING_CUTOFF_MIN_HZ
    /\ m_smoothingFilter.feedforwardCutoffFrequency = SMOOTHING_CUTOFF_MIN_HZ

-----------------------------------------------------------------------------
(* Properties of the failsafe fallback value                               *)

\* C32: the fallback value of a channel in failsafe mode SET is
\* 885 + 25 * step, for every step.
C32_StepValue ==
    failValue # -1 => failValue = 885 + 25 * failStep

-----------------------------------------------------------------------------
(* Properties of arming against the frame of the receiver cycle            *)

\* C33: Board arms only in a receiver cycle whose own frame has the
\* throttle down: when attemptToArm sets isArmed, the frame the receiver
\* read in this cycle reports throttle down.
C33_ArmsOnFrameThrottleDown ==
    (build = "board" /\ InSeq("arm", events)) => rx.throttleDown

-----------------------------------------------------------------------------
(* Properties of Receiver::poll, check and getDemands                      *)

\* C31: the demands getDemands hands out have roll, pitch and yaw within
\* [-1998, +1998] deg/s and the throttle within [0, 1] (in thousandths).
C31_DemandClamp ==
    /\ \A axis \in Axes :
           demands[axis] >= -RATE_LIMIT /\ demands[axis] <= RATE_LIMIT
    /\ demands[THROTTLE] >= 0
    /\ demands[THROTTLE] <= 1000

C31_Witness ==
    /\ rcCall.call = "getDemands"
    /\ filtersInitialized
    /\ m_dataToSmooth[THROTTLE] = PWM_MAX
    /\ m_commands.throttle < PWM_MIN
    /\ demands[THROTTLE] = 0
    /\ demands[ROLL] > 0
    /\ demands[PITCH] < 0

\* C35: a poll moves m_state one step along CHECK, PROCESS, MODES, UPDATE,
\* CHECK, except from PROCESS back to CHECK when no data processing is
\* required; it reports gotNewData exactly when it was made in UPDATE and
\* pidItermResetReady exactly when it processed data in PROCESS; no other
\* call changes m_state; and a check made outside STATE_CHECK returns true,
\* does not read the device and changes nothing.
C35_PollCycle ==
    [][/\ rcCall'.call = "poll"
            => /\ \/ m_state = "CHECK" /\ m_state' = "PROCESS"
                  \/ m_state = "PROCESS" /\ m_dataRequired
                         /\ m_state' = "MODES"
                  \/ m_state = "PROCESS" /\ ~m_dataRequired
                         /\ m_state' = "CHECK"
                  \/ m_state = "MODES" /\ m_state' = "UPDATE"
                  \/ m_state = "UPDATE" /\ m_state' = "CHECK"
               /\ rcCall'.gotNewData = (m_state = "UPDATE")
               /\ m_gotNewData' = (m_state = "UPDATE")
               /\ rcCall'.pidItermResetReady
                      = (m_state = "PROCESS" /\ m_dataRequired)
       /\ rcCall'.call \in {"check", "getDemands"} => m_state' = m_state
       /\ (rcCall'.call = "check" /\ m_state # "CHECK")
            => /\ rcCall'.returned
               /\ ~rcCall'.readDevice
               /\ UNCHANGED <<m_state, m_gotNewData,
                              m_auxiliaryProcessingRequired, m_dataRequired,
                              m_rawSticks, m_command, m_commands,
                              m_dataToSmooth, filtersInitialized, pt3,
                              demands>>]_vars

C35_Witness ==
    /\ rcCall.call = "poll"
    /\ rcCall.stateBefore = "UPDATE"
    /\ rcCall.gotNewData
    /\ m_state = "CHECK"
    /\ m_rawSticks[ROLL] = 2250

\* C36: every frame poll completes in STATE_UPDATE is consumed by exactly
\* one later getDemands: no poll starts while m_gotNewData is still set, a
\* getDemands leaves the flag clear and no frame pending.
C36_FrameConsumedOnce ==
    /\ rcCall.call = "poll" => ~rcCall.newDataBefore
    /\ rcCall.call = "getDemands" => (~m_gotNewData /\ framesPending = 0)
    /\ framesPending <= 1

\* C37: parser_parse builds a reply of type 121 or 122 (ready: buffer_index
\* reset, output buffer rewritten) only on a call entered in parser state 5,
\* the state in which the checksum byte of a frame is consumed; a call
\* entered idle in state 0 never builds one, whatever the previous frame was.
C37_ReplyOnlyOnChecksum ==
    (parse.called /\ parse.ready /\ type_ \in {121, 122})
        => parse.state = 5

-----------------------------------------------------------------------------
(* Properties of the SPI bus driver                                         *)

\* C38: on a bus with useAtomicWait set, at most one transfer sequence is in
\* progress at any time, under every interleaving of the blocking caller
\* (spiWaitClaim, spiSequence, spiWait) with spiSequence calls and DMA
\* completions in interrupt context.
C38_OneSequenceInProgress ==
    useAtomicWait => Cardinality(inProgress) <= 1

\* C39: on a bus with useAtomicWait set, a transfer deferred by spiSequence
\* stays recorded in the terminating segment of a segment list until it is
\* started (none is lost or overwritten when more than one is requested),
\* and spiWait of the blocking caller returns only after the caller's own
\* transfer ran to its terminating segment.
C39_DeferredNotLost ==
    useAtomicWait =>
        /\ \A dev \in deferred :
              \E list \in SpiDevices : segmentLink[list] = dev
        /\ waitReturned => MainDevice \in completed

\* C40: every sequence started eventually leaves curSegment = BUS_SPI_FREE,
\* and spiWait of the blocking caller terminates, when the callbacks answer
\* BUS_BUSY only finitely often.
C40_BusEventuallyFree ==
    /\ [](curSegment # BUS_SPI_FREE => <>(curSegment = BUS_SPI_FREE))
    /\ [](mainPc = "spiWait" => <>(mainPc = "idle"))

====
